---- MODULE Spec2Model ----
(***************************************************************************)
(* Domainosaur: the valuation engine (evaluateDomain and its factor        *)
(* scorers), the external data adapters with their fallbacks, the appraise *)
(* route with its result cache, the fixed-window rate limiter and the      *)
(* background WHOIS update.                                                *)
(*                                                                         *)
(* Domains are strings.  Times are milliseconds since the start of the     *)
(* run.  Fractional weights and multipliers are kept as exact integers:    *)
(* weights in hundredths, legal and availability multipliers in tenths,    *)
(* the premium multiplier in hundredths, so a final score is kept in       *)
(* millionths (ScoreScale).  A JavaScript number that is NaN is the value  *)
(* NaN below; every other number is Num(n).                                *)
(***************************************************************************)
EXTENDS Integers, Sequences, FiniteSets, TLC

VARIABLES
  now,           \* Date.now(), in ms
  ticks,         \* how often the clock has advanced
  rateLimitMap,  \* rate-limiter: the entries, by client ip
  rlCalls,       \* the checkRateLimit calls made so far and what each returned
  appraisals,    \* the appraisals table: set of rows
  nextId,        \* the table's SERIAL id
  req,           \* requests handled by POST, by request id
  bg,            \* background WHOIS tasks
  ev,            \* one evaluateDomain run stepped adapter by adapter
  fn             \* the last call of a function made on its own: arguments and result

vars == <<now, ticks, rateLimitMap, rlCalls, appraisals, nextId, req, bg, ev, fn>>

-----------------------------------------------------------------------------
(* Strings *)

Char(s, i) == SubSeq(s, i, i)

LowerLetters ==
  { "a", "b", "c", "d", "e", "f", "g", "h", "i", "j", "k", "l", "m",
    "n", "o", "p", "q", "r", "s", "t", "u", "v", "w", "x", "y", "z" }

UpperLetters ==
  { "A", "B", "C", "D", "E", "F", "G", "H", "I", "J", "K", "L", "M",
    "N", "O", "P", "Q", "R", "S", "T", "U", "V", "W", "X", "Y", "Z" }

Digits == { "0", "1", "2", "3", "4", "5", "6", "7", "8", "9" }

Vowels == { "a", "e", "i", "o", "u" }

LowerOf(c) ==
  CASE c = "A" -> "a" [] c = "B" -> "b" [] c = "C" -> "c" [] c = "D" -> "d"
    [] c = "E" -> "e" [] c = "F" -> "f" [] c = "G" -> "g" [] c = "H" -> "h"
    [] c = "I" -> "i" [] c = "J" -> "j" [] c = "K" -> "k" [] c = "L" -> "l"
    [] c = "M" -> "m" [] c = "N" -> "n" [] c = "O" -> "o" [] c = "P" -> "p"
    [] c = "Q" -> "q" [] c = "R" -> "r" [] c = "S" -> "s" [] c = "T" -> "t"
    [] c = "U" -> "u" [] c = "V" -> "v" [] c = "W" -> "w" [] c = "X" -> "x"
    [] c = "Y" -> "y" [] c = "Z" -> "z" [] OTHER -> c

RECURSIVE toLowerCase(_)
toLowerCase(s) ==
  IF Len(s) = 0 THEN s
  ELSE LowerOf(Char(s, 1)) \o toLowerCase(SubSeq(s, 2, Len(s)))

RECURSIVE trim(_)
trim(s) ==
  IF Len(s) = 0 THEN s
  ELSE IF Char(s, 1) = " " THEN trim(SubSeq(s, 2, Len(s)))
  ELSE IF Char(s, Len(s)) = " " THEN trim(SubSeq(s, 1, Len(s) - 1))
  ELSE s

\* s.includes(sub)
includes(s, sub) ==
  \E i \in 1..(Len(s) - Len(sub) + 1) : SubSeq(s, i, i + Len(sub) - 1) = sub

startsWith(s, p) == Len(p) <= Len(s) /\ SubSeq(s, 1, Len(p)) = p

endsWith(s, p) == Len(p) <= Len(s) /\ SubSeq(s, Len(s) - Len(p) + 1, Len(s)) = p

\* /\d/.test(s)
hasDigit(s) == \E i \in 1..Len(s) : Char(s, i) \in Digits

\* /^[a-z]+$/.test(s)
isLowerAlpha(s) == Len(s) >= 1 /\ \A i \in 1..Len(s) : Char(s, i) \in LowerLetters

\* position of the last occurrence of character c in s, 0 when there is none
lastIndexOf(s, c) ==
  LET at == { i \in 1..Len(s) : Char(s, i) = c }
  IN IF at = {} THEN 0 ELSE CHOOSE i \in at : \A j \in at : j <= i

\* s.split(c) for a one-character separator
RECURSIVE split(_, _)
split(s, c) ==
  LET at == { i \in 1..Len(s) : Char(s, i) = c }
  IN IF at = {} THEN << s >>
     ELSE LET i == CHOOSE k \in at : \A j \in at : k <= j
          IN << SubSeq(s, 1, i - 1) >> \o split(SubSeq(s, i + 1, Len(s)), c)

\* parts.slice(i).join('.') for a 1-based index i
RECURSIVE joinFrom(_, _)
joinFrom(parts, i) ==
  IF i > Len(parts) THEN ""
  ELSE IF i = Len(parts) THEN parts[i]
  ELSE parts[i] \o "." \o joinFrom(parts, i + 1)

\* s.replace(/\.(a|b|...)$/, '') for a set of dot-free alternatives
stripSuffix(s, alternatives) ==
  LET i == lastIndexOf(s, ".")
  IN IF i > 0 /\ SubSeq(s, i + 1, Len(s)) \in alternatives
     THEN SubSeq(s, 1, i - 1) ELSE s

\* domain.split('.').pop()
lastLabel(s) == SubSeq(s, lastIndexOf(s, ".") + 1, Len(s))

Max(a, b) == IF a >= b THEN a ELSE b
Min(a, b) == IF a <= b THEN a ELSE b

\* Math.round of the rational p / q (q > 0, p >= 0): halves round up
RoundDiv(p, q) == (2 * p + q) \div (2 * q)

-----------------------------------------------------------------------------
(* JavaScript values that cross an adapter or request boundary *)

Num(n) == [t |-> "num", n |-> n, s |-> ""]
Str(s) == [t |-> "str", n |-> 0, s |-> s]
NaN == [t |-> "NaN", n |-> 0, s |-> ""]
Undefined == [t |-> "undefined", n |-> 0, s |-> ""]
Null == [t |-> "null", n |-> 0, s |-> ""]
Bool(b) == [t |-> "bool", n |-> IF b THEN 1 ELSE 0, s |-> ""]

IsNum(v) == v.t = "num"

\* the truthiness JavaScript gives a value in `v || d` and `if (v)`
Truthy(v) ==
  CASE v.t = "num" -> v.n # 0
    [] v.t = "bool" -> v.n # 0
    [] v.t = "str" -> v.s # ""
    [] OTHER -> FALSE

\* a || b
OrElse(a, b) == IF Truthy(a) THEN a ELSE b

\* v >= k as JavaScript compares a number with a number (false for NaN, for
\* undefined, and for a string that is not numeric)
GreaterEq(v, k) == IsNum(v) /\ v.n >= k

\* a * b and a + b over numbers that may be NaN
NMul(a, b) == IF IsNum(a) /\ IsNum(b) THEN Num(a.n * b.n) ELSE NaN
NAdd(a, b) == IF IsNum(a) /\ IsNum(b) THEN Num(a.n + b.n) ELSE NaN

-----------------------------------------------------------------------------
(* tld-utils *)

MULTI_LEVEL_TLDS ==
  { "co.uk", "ac.uk", "gov.uk", "net.uk", "org.uk", "me.uk", "ltd.uk", "plc.uk", "com.au",
    "net.au", "org.au", "edu.au", "gov.au", "asn.au", "id.au", "co.ca", "gc.ca", "co.nz",
    "net.nz", "org.nz", "ac.nz", "govt.nz", "geek.nz", "gen.nz", "kiwi.nz", "maori.nz",
    "iwi.nz", "school.nz", "co.za", "org.za", "net.za", "ac.za", "gov.za", "law.za",
    "mil.za", "nom.za", "school.za", "web.za", "co.in", "net.in", "org.in", "gen.in",
    "firm.in", "ind.in", "co.jp", "ne.jp", "or.jp", "ac.jp", "ad.jp", "ed.jp", "go.jp",
    "gr.jp", "lg.jp", "com.br", "net.br", "org.br", "gov.br", "edu.br", "mil.br", "art.br",
    "esp.br", "rec.br", "inf.br", "com.ng", "net.ng", "org.ng", "gov.ng", "edu.ng",
    "mil.ng", "co.ke", "ne.ke", "or.ke", "ac.ke", "sc.ke", "go.ke", "me.ke", "mobi.ke",
    "info.ke", "co.il", "net.il", "org.il", "ac.il", "gov.il", "muni.il", "idf.il",
    "co.de", "com.de", "co.fr", "com.fr", "com.es", "nom.es", "org.es", "gob.es", "edu.es",
    "co.it", "com.it", "co.ru", "com.ru", "net.ru", "org.ru", "pp.ru", "msk.ru", "spb.ru",
    "com.cn", "net.cn", "org.cn", "gov.cn", "edu.cn", "mil.cn", "ac.cn", "ah.cn", "bj.cn",
    "cq.cn", "fj.cn", "gd.cn", "gs.cn", "gz.cn", "gx.cn", "ha.cn", "hb.cn", "he.cn",
    "hi.cn", "hk.cn", "hl.cn", "hn.cn", "jl.cn", "js.cn", "jx.cn", "ln.cn", "mo.cn",
    "nm.cn", "nx.cn", "qh.cn", "sc.cn", "sd.cn", "sh.cn", "sn.cn", "sx.cn", "tj.cn",
    "tw.cn", "xj.cn", "xz.cn", "yn.cn", "zj.cn", "com.hk", "net.hk", "org.hk", "gov.hk",
    "edu.hk", "idv.hk", "com.sg", "net.sg", "org.sg", "gov.sg", "edu.sg", "per.sg",
    "com.my", "net.my", "org.my", "gov.my", "edu.my", "mil.my", "name.my", "co.th",
    "ac.th", "go.th", "in.th", "mi.th", "net.th", "or.th", "com.ph", "net.ph", "org.ph",
    "gov.ph", "edu.ph", "mil.ph", "ngo.ph", "co.id", "net.id", "org.id", "ac.id", "sch.id",
    "go.id", "mil.id", "web.id", "war.net.id", "com.vn", "net.vn", "org.vn", "edu.vn",
    "gov.vn", "int.vn", "ac.vn", "biz.vn", "info.vn", "name.vn", "pro.vn", "health.vn",
    "co.kr", "ne.kr", "or.kr", "ac.kr", "go.kr", "mil.kr", "pe.kr", "ra.kr", "sc.kr",
    "seoul.kr", "kyonggi.kr", "com.tw", "net.tw", "org.tw", "idv.tw", "game.tw", "ebiz.tw",
    "club.tw", "com.mx", "net.mx", "org.mx", "gob.mx", "edu.mx", "com.ar", "net.ar",
    "org.ar", "gov.ar", "edu.ar", "mil.ar", "int.ar", "tur.ar", "co.cl", "gob.cl",
    "gov.cl", "com.co", "net.co", "org.co", "edu.co", "gov.co", "mil.co", "nom.co",
    "web.co", "com.pe", "net.pe", "org.pe", "edu.pe", "gob.pe", "mil.pe", "nom.pe",
    "co.ve", "com.ve", "net.ve", "org.ve", "gov.ve", "mil.ve", "edu.ve", "int.ve",
    "tec.ve", "web.ve", "info.ve", "com.eg", "net.eg", "org.eg", "edu.eg", "gov.eg",
    "mil.eg", "sci.eg", "com.tr", "net.tr", "org.tr", "edu.tr", "gov.tr", "mil.tr",
    "gen.tr", "av.tr", "dr.tr", "biz.tr", "info.tr", "name.tr", "web.tr", "com.pl",
    "net.pl", "org.pl", "edu.pl", "gov.pl", "mil.pl", "ngo.pl", "pc.pl", "powiat.pl",
    "priv.pl", "realestate.pl", "rel.pl", "sex.pl", "shop.pl", "sklep.pl", "sos.pl",
    "szkola.pl", "targi.pl", "tm.pl", "tourism.pl", "travel.pl", "turystyka.pl", "co.cz",
    "com.cz", "co.sk", "com.sk", "co.hu", "com.hu", "com.ro", "org.ro", "tm.ro", "nt.ro",
    "nom.ro", "info.ro", "rec.ro", "arts.ro", "firm.ro", "store.ro", "www.ro", "com.bg",
    "org.bg", "net.bg", "edu.bg", "gov.bg", "biz.bg", "info.bg", "name.bg", "com.hr",
    "from.hr", "iz.hr", "name.hr", "co.rs", "org.rs", "edu.rs", "ac.rs", "gov.rs", "in.rs",
    "com.ua", "net.ua", "org.ua", "edu.ua", "gov.ua", "in.ua", "ua.ua", "dp.ua",
    "kharkov.ua", "kherson.ua", "kiev.ua", "kirovograd.ua", "kremenchug.ua", "kr.ua",
    "lg.ua", "lutsk.ua", "lviv.ua", "mk.ua", "nikolaev.ua", "od.ua", "pl.ua", "poltava.ua",
    "rovno.ua", "sebastopol.ua", "sumy.ua", "te.ua", "uzhgorod.ua", "vinnica.ua",
    "zaporizhzhe.ua", "zhitomir.ua", "zp.ua", "zt.ua" }

\* the TLD taken as the last two labels of a domain of three labels or more
extractTLDLastTwo(domain) ==
  LET tail(parts) ==
        IF Len(parts) < 2 THEN ""
        ELSE IF Len(parts) >= 3 THEN joinFrom(parts, Len(parts) - 1)
        ELSE parts[Len(parts)]
  IN tail(split(trim(toLowerCase(domain)), "."))

extractTLD(domain) ==
  LET \* parts.slice(i) for the 0-based i of the loop is joinFrom(parts, i + 1)
      first(parts, hits) ==
        IF Len(parts) < 2 THEN ""
        ELSE IF hits # {}
             THEN joinFrom(parts, (CHOOSE i \in hits : \A j \in hits : i <= j) + 1)
             ELSE parts[Len(parts)]
      scan(parts) ==
        first(parts, { i \in Max(1, Len(parts) - 3)..(Len(parts) - 2) :
                         joinFrom(parts, i + 1) \in MULTI_LEVEL_TLDS })
  IN scan(split(trim(toLowerCase(domain)), "."))

extractDomainName(domain) ==
  LET cut(cleanDomain, tld) ==
        IF tld = "" THEN cleanDomain
        ELSE SubSeq(cleanDomain, 1, Len(cleanDomain) - (Len(tld) + 1))
      clean(cleanDomain) == cut(cleanDomain, extractTLD(cleanDomain))
  IN clean(trim(toLowerCase(domain)))

getTLDScore(tld, targetCountry) ==
  LET score(normalizedTLD) ==
     IF normalizedTLD = "com" THEN 100
     ELSE IF normalizedTLD \in {"net", "org"} THEN 70
     ELSE IF normalizedTLD \in {"io", "ai"} THEN 65
     ELSE IF normalizedTLD \in {"co", "me"} THEN 60
     ELSE IF normalizedTLD \in {"app", "tech", "dev"} THEN 55
     ELSE IF normalizedTLD \in {"xyz", "info", "biz"} THEN 45
     ELSE IF normalizedTLD \in MULTI_LEVEL_TLDS
          THEN IF normalizedTLD \in {"co.uk", "com.au", "co.nz"} THEN 85
               ELSE IF normalizedTLD \in {"com.br", "co.za", "co.jp", "com.sg", "co.in"} THEN 75
               ELSE IF startsWith(normalizedTLD, "com.") \/ startsWith(normalizedTLD, "co.") THEN 65
               ELSE 55
     ELSE IF Len(normalizedTLD) = 2
          THEN IF Truthy(targetCountry) /\ toLowerCase(targetCountry.s) = normalizedTLD
               THEN 75 ELSE 50
     ELSE 40
  IN score(toLowerCase(tld))

-----------------------------------------------------------------------------
(* Factor scorers *)

\* number of characters of s that are in the set cs
RECURSIVE countChars(_, _)
countChars(s, cs) ==
  IF Len(s) = 0 THEN 0
  ELSE (IF Char(s, 1) \in cs THEN 1 ELSE 0) + countChars(SubSeq(s, 2, Len(s)), cs)

\* the length scorer with the tier of 4 characters set below that of 5
scoreLengthDippingAtFour(domain) ==
  LET score(domainName, length) ==
        LET base == IF length <= 3 THEN 100
                    ELSE IF length = 4 THEN 80
                    ELSE IF length = 5 THEN 85
                    ELSE IF length = 6 THEN 75
                    ELSE IF length = 7 THEN 65
                    ELSE IF length = 8 THEN 55
                    ELSE IF length <= 10 THEN 45
                    ELSE IF length <= 12 THEN 35
                    ELSE IF length <= 15 THEN 25
                    ELSE 15
        IN Max(0, base
                  - (IF includes(domainName, "-") THEN 20 ELSE 0)
                  - (IF hasDigit(domainName) THEN (IF length <= 4 THEN 5 ELSE 10) ELSE 0)
                  - (IF includes(domainName, "_") THEN 15 ELSE 0)
                  - (IF 1 + countChars(domainName, {"-", "_"}) > 3 THEN 10 ELSE 0))
      named(domainName) == score(domainName, Len(domainName))
  IN named(extractDomainName(domain))

scoreLengthAndSimplicity(domain) ==
  LET score(domainName, length) ==
        LET wordCount == 1 + countChars(domainName, {"-", "_"})
            hasHyphen == includes(domainName, "-")
            hasNumber == hasDigit(domainName)
            hasUnderscore == includes(domainName, "_")
            base == IF length = 1 THEN 100
                    ELSE IF length = 2 THEN 100
                    ELSE IF length = 3 THEN 100
                    ELSE IF length = 4 THEN 95
                    ELSE IF length = 5 THEN 85
                    ELSE IF length = 6 THEN 75
                    ELSE IF length = 7 THEN 65
                    ELSE IF length = 8 THEN 55
                    ELSE IF length <= 10 THEN 45
                    ELSE IF length <= 12 THEN 35
                    ELSE IF length <= 15 THEN 25
                    ELSE 15
        IN Max(0, base
                  - (IF hasHyphen THEN 20 ELSE 0)
                  - (IF hasNumber THEN (IF length <= 4 THEN 5 ELSE 10) ELSE 0)
                  - (IF hasUnderscore THEN 15 ELSE 0)
                  - (IF wordCount > 3 THEN 10 ELSE 0))
      named(domainName) == score(domainName, Len(domainName))
  IN named(extractDomainName(domain))

industryKeywords ==
  << [keyword |-> "crypto", industry |-> "finance", value |-> 95],
     [keyword |-> "bitcoin", industry |-> "finance", value |-> 90],
     [keyword |-> "finance", industry |-> "finance", value |-> 85],
     [keyword |-> "bank", industry |-> "finance", value |-> 90],
     [keyword |-> "pay", industry |-> "finance", value |-> 80],
     [keyword |-> "wallet", industry |-> "finance", value |-> 85],
     [keyword |-> "loan", industry |-> "finance", value |-> 75],
     [keyword |-> "invest", industry |-> "finance", value |-> 80],
     [keyword |-> "trade", industry |-> "finance", value |-> 75],
     [keyword |-> "exchange", industry |-> "finance", value |-> 85],
     [keyword |-> "ai", industry |-> "technology", value |-> 95],
     [keyword |-> "tech", industry |-> "technology", value |-> 80],
     [keyword |-> "app", industry |-> "technology", value |-> 75],
     [keyword |-> "software", industry |-> "technology", value |-> 70],
     [keyword |-> "cloud", industry |-> "technology", value |-> 85],
     [keyword |-> "data", industry |-> "technology", value |-> 75],
     [keyword |-> "digital", industry |-> "technology", value |-> 70],
     [keyword |-> "smart", industry |-> "technology", value |-> 75],
     [keyword |-> "auto", industry |-> "technology", value |-> 70],
     [keyword |-> "bot", industry |-> "technology", value |-> 65],
     [keyword |-> "health", industry |-> "health", value |-> 85],
     [keyword |-> "medical", industry |-> "health", value |-> 80],
     [keyword |-> "care", industry |-> "health", value |-> 75],
     [keyword |-> "wellness", industry |-> "health", value |-> 70],
     [keyword |-> "fitness", industry |-> "health", value |-> 75],
     [keyword |-> "doctor", industry |-> "health", value |-> 80],
     [keyword |-> "therapy", industry |-> "health", value |-> 70],
     [keyword |-> "clinic", industry |-> "health", value |-> 75],
     [keyword |-> "shop", industry |-> "ecommerce", value |-> 80],
     [keyword |-> "store", industry |-> "ecommerce", value |-> 75],
     [keyword |-> "market", industry |-> "ecommerce", value |-> 80],
     [keyword |-> "buy", industry |-> "ecommerce", value |-> 70],
     [keyword |-> "sell", industry |-> "ecommerce", value |-> 70],
     [keyword |-> "deal", industry |-> "ecommerce", value |-> 65],
     [keyword |-> "sale", industry |-> "ecommerce", value |-> 65],
     [keyword |-> "cart", industry |-> "ecommerce", value |-> 60],
     [keyword |-> "travel", industry |-> "travel", value |-> 85],
     [keyword |-> "hotel", industry |-> "travel", value |-> 80],
     [keyword |-> "flight", industry |-> "travel", value |-> 75],
     [keyword |-> "trip", industry |-> "travel", value |-> 70],
     [keyword |-> "vacation", industry |-> "travel", value |-> 70],
     [keyword |-> "booking", industry |-> "travel", value |-> 75],
     [keyword |-> "resort", industry |-> "travel", value |-> 70],
     [keyword |-> "learn", industry |-> "education", value |-> 70],
     [keyword |-> "education", industry |-> "education", value |-> 75],
     [keyword |-> "course", industry |-> "education", value |-> 65],
     [keyword |-> "study", industry |-> "education", value |-> 60],
     [keyword |-> "school", industry |-> "education", value |-> 70],
     [keyword |-> "training", industry |-> "education", value |-> 65],
     [keyword |-> "food", industry |-> "food", value |-> 70],
     [keyword |-> "restaurant", industry |-> "food", value |-> 65],
     [keyword |-> "delivery", industry |-> "food", value |-> 70],
     [keyword |-> "recipe", industry |-> "food", value |-> 60],
     [keyword |-> "kitchen", industry |-> "food", value |-> 55],
     [keyword |-> "real", industry |-> "realestate", value |-> 75],
     [keyword |-> "estate", industry |-> "realestate", value |-> 75],
     [keyword |-> "property", industry |-> "realestate", value |-> 70],
     [keyword |-> "home", industry |-> "realestate", value |-> 70],
     [keyword |-> "house", industry |-> "realestate", value |-> 65],
     [keyword |-> "rent", industry |-> "realestate", value |-> 70],
     [keyword |-> "game", industry |-> "gaming", value |-> 70],
     [keyword |-> "gaming", industry |-> "gaming", value |-> 75],
     [keyword |-> "play", industry |-> "gaming", value |-> 60],
     [keyword |-> "entertainment", industry |-> "gaming", value |-> 65],
     [keyword |-> "fun", industry |-> "gaming", value |-> 55],
     [keyword |-> "business", industry |-> "business", value |-> 75],
     [keyword |-> "pro", industry |-> "business", value |-> 65],
     [keyword |-> "work", industry |-> "business", value |-> 60],
     [keyword |-> "career", industry |-> "business", value |-> 65],
     [keyword |-> "job", industry |-> "business", value |-> 60],
     [keyword |-> "hire", industry |-> "business", value |-> 65],
     [keyword |-> "best", industry |-> "generic", value |-> 60],
     [keyword |-> "top", industry |-> "generic", value |-> 60],
     [keyword |-> "premium", industry |-> "generic", value |-> 65],
     [keyword |-> "elite", industry |-> "generic", value |-> 65],
     [keyword |-> "expert", industry |-> "generic", value |-> 60],
     [keyword |-> "master", industry |-> "generic", value |-> 60],
     [keyword |-> "quick", industry |-> "generic", value |-> 55],
     [keyword |-> "fast", industry |-> "generic", value |-> 55],
     [keyword |-> "easy", industry |-> "generic", value |-> 55],
     [keyword |-> "simple", industry |-> "generic", value |-> 55] >>

KeywordSuffixes == {"com", "net", "org", "io", "ai", "co", "app", "xyz", "info", "biz"}

\* the loop of findKeywordValue over the entries of industryKeywords that pass
\* its `if (domainLower.includes(keyword))`, from the i-th on, carrying
\* (bestScore, bestIndustry, matchedKeywords)
RECURSIVE keywordScan(_, _, _)
keywordScan(items, i, acc) ==
  IF i > Len(items) THEN acc
  ELSE keywordScan(items, i + 1,
         [ score |-> IF items[i].value > acc.score THEN items[i].value ELSE acc.score,
           industry |-> IF items[i].value > acc.score THEN items[i].industry ELSE acc.industry,
           matchedKeywords |-> Append(acc.matchedKeywords, items[i].keyword) ])

findKeywordValue(domain) ==
  LET result(scanned, exactValue) ==
        LET bonused == IF exactValue >= 80 THEN Min(100, scanned.score + 10) ELSE scanned.score
        IN [ score |-> IF Len(scanned.matchedKeywords) > 3 THEN Max(30, bonused - 10) ELSE bonused,
             industry |-> scanned.industry,
             matchedKeywords |-> scanned.matchedKeywords ]
      \* industryKeywords.find: the first entry that matches
      found(exact) ==
        IF exact = {} THEN 0
        ELSE industryKeywords[CHOOSE i \in exact : \A j \in exact : i <= j].value
      scan(domainLower) ==
        result(keywordScan(SelectSeq(industryKeywords,
                                     LAMBDA item : includes(domainLower, item.keyword)), 1,
                           [score |-> 20, industry |-> "generic", matchedKeywords |-> << >>]),
               found({ i \in 1..Len(industryKeywords) :
                         \/ domainLower = industryKeywords[i].keyword
                         \/ domainLower = industryKeywords[i].keyword \o "s" }))
  IN scan(stripSuffix(toLowerCase(domain), KeywordSuffixes))

scoreKeywords(domain) ==
  LET renamed(result) ==
        [score |-> result.score, industry |-> result.industry, keywords |-> result.matchedKeywords]
  IN renamed(findKeywordValue(domain))

scoreTLD(domain, targetCountry) == getTLDScore(extractTLD(domain), targetCountry)

scoreIndustryRelevance(industry, keywords) ==
  LET baseScore == IF industry \in {"finance", "technology", "health", "ecommerce", "travel"} THEN 85
                   ELSE IF industry \in {"education", "realestate", "business", "gaming"} THEN 60
                   ELSE IF industry # "generic" THEN 45
                   ELSE 30
  IN IF Len(keywords) >= 2 THEN Min(100, baseScore + 10) ELSE baseScore

RECURSIVE sumSimilarity(_)
sumSimilarity(comps) ==
  IF Len(comps) = 0 THEN 0 ELSE Head(comps).similarity + sumSimilarity(Tail(comps))

scoreComparableSales(domain, comps) ==
  LET \* avgSimilarity >= k is total >= k * n
      tier(total, n) ==
        IF total >= 80 * n THEN 85
        ELSE IF total >= 60 * n THEN 75
        ELSE IF total >= 40 * n THEN 65
        ELSE IF total >= 20 * n THEN 55
        ELSE 50
  IN IF Len(comps) = 0 THEN 50 ELSE tier(sumSimilarity(comps), Len(comps))

calculateAgeScore(ageInYears) ==
  \* ageInYears.n is in tenths of a year
  IF GreaterEq(ageInYears, 150) THEN 95
  ELSE IF GreaterEq(ageInYears, 100) THEN 90
  ELSE IF GreaterEq(ageInYears, 50) THEN 70
  ELSE IF GreaterEq(ageInYears, 20) THEN 50
  ELSE 25

calculateTrafficScore(monthlyTraffic) ==
  IF GreaterEq(monthlyTraffic, 1000000) THEN 95
  ELSE IF GreaterEq(monthlyTraffic, 100000) THEN 90
  ELSE IF GreaterEq(monthlyTraffic, 10000) THEN 70
  ELSE IF GreaterEq(monthlyTraffic, 1000) THEN 50
  ELSE IF GreaterEq(monthlyTraffic, 100) THEN 30
  ELSE 20

scoreLiquidity(domain) ==
  LET score(domainName, tld, length, alpha, hyphen) ==
    LET
      baseScore ==
        IF tld = "com"
        THEN (IF length <= 8 THEN 75 ELSE IF length <= 12 THEN 65 ELSE 55)
        ELSE IF tld \in {"net", "org"}
        THEN (IF length <= 8 THEN 65 ELSE IF length <= 12 THEN 55 ELSE 45)
        ELSE IF tld \in {"io", "ai", "co"}
        THEN (IF length <= 8 THEN 60 ELSE IF length <= 12 THEN 50 ELSE 40)
        ELSE (IF length <= 8 THEN 50 ELSE IF length <= 12 THEN 40 ELSE 30)
      penalised == baseScore
                   - (IF hyphen THEN 15 ELSE 0)
                   - (IF hasDigit(domainName) THEN (IF length <= 4 THEN 5 ELSE 10) ELSE 0)
    IN
     IF tld = "com" /\ length <= 2 /\ alpha THEN 100
     ELSE IF tld = "com" /\ length = 3 /\ alpha THEN 100
     ELSE IF tld = "com" /\ length = 4 /\ alpha THEN 95
     ELSE IF tld = "com" /\ length = 5 /\ alpha /\ ~hyphen THEN 90
     ELSE IF tld = "com" /\ length <= 6 /\ alpha /\ ~hyphen THEN 85
     ELSE IF tld \in {"net", "org"} /\ length <= 3 /\ alpha THEN 95
     ELSE IF tld \in {"net", "org"} /\ length = 4 /\ alpha THEN 85
     ELSE IF tld \in {"io", "ai"} /\ length <= 3 /\ alpha THEN 90
     ELSE IF tld \in {"io", "ai"} /\ length = 4 /\ alpha THEN 80
     ELSE IF tld \in {"co.uk", "com.au", "co.nz"} /\ length <= 4 /\ alpha THEN 85
     ELSE IF tld \in {"co.uk", "com.au", "co.nz"} /\ length = 5 /\ alpha THEN 75
     ELSE Max(20, penalised)
      named(domainName) ==
        score(domainName, extractTLD(domain), Len(domainName), isLowerAlpha(domainName),
              includes(domainName, "-"))
  IN named(extractDomainName(domain))

-----------------------------------------------------------------------------
(* xai: local fallback estimators *)

\* the alternatives of the suffix pattern shared by the xai helpers
XaiSuffixes ==
  { "com", "net", "org", "io", "ai", "co", "app", "xyz", "info", "biz", "me", "tv", "cc",
    "ly", "gl", "tech", "online", "store", "blog", "site", "news", "pro", "club", "agency",
    "studio", "digital", "dev", "design", "marketing", "services", "solutions", "group",
    "ventures", "holdings", "capital", "fund", "invest", "crypto", "blockchain", "finance",
    "bank", "pay", "wallet", "trade", "exchange", "market", "shop", "buy", "sell", "deal",
    "sale", "cart", "travel", "hotel", "flight", "trip", "vacation", "booking", "resort",
    "learn", "education", "course", "study", "school", "training", "food", "restaurant",
    "delivery", "recipe", "kitchen", "real", "estate", "property", "home", "house", "rent",
    "game", "gaming", "play", "entertainment", "fun", "business", "work", "career", "job",
    "hire", "health", "medical", "care", "wellness", "fitness", "doctor", "therapy",
    "clinic", "software", "cloud", "data", "smart", "auto", "bot" }

Consonants == LowerLetters \ Vowels

\* s has a run of at least n consecutive characters all in cs
hasRun(s, cs, n) ==
  \E i \in 1..(Len(s) - n + 1) : \A j \in i..(i + n - 1) : Char(s, j) \in cs

\* /[qxzjk]{2,}|[bcdfghjklmnpqrstvwxyz]{4,}/
hardConsonants(s) == hasRun(s, {"q", "x", "z", "j", "k"}, 2) \/ hasRun(s, Consonants, 4)

BrandablePrefixes ==
  { "un", "re", "pre", "anti", "auto", "co", "de", "dis", "ex", "il", "im", "in", "ir",
    "inter", "mega", "micro", "mid", "mis", "non", "over", "out", "post", "pro", "sub",
    "super", "trans", "ultra", "under" }

BrandableKeywords ==
  { "tech", "app", "web", "net", "smart", "pro", "max", "plus", "prime", "elite", "ace",
    "zen", "flex", "swift", "cloud", "hub", "lab", "studio", "works", "corp", "inc" }

brandTldScore(tld) ==
  CASE tld = "com" -> 20 [] tld = "net" -> 8 [] tld = "org" -> 6 [] tld = "io" -> 15
    [] tld = "ai" -> 12 [] tld = "co" -> 10 [] tld = "app" -> 8 [] tld = "tech" -> 6
    [] tld = "dev" -> 5 [] tld = "me" -> 4 [] tld = "tv" -> 3 [] tld = "cc" -> 2
    [] OTHER -> 0 - 5

analyzeBrandabilityFallback(domain) ==
  LET analysis(domainName, last, length) ==
    LET
      tld == IF last = "" THEN "com" ELSE last
      hasHyphen == includes(domainName, "-")
      hasNumber == hasDigit(domainName)
      hasSpecialChars ==
        \E i \in 1..length : Char(domainName, i) \notin (LowerLetters \cup Digits \cup {"-"})
      vowelCount == countChars(domainName, Vowels)
      \* vowelRatio >= 0.2 /\ vowelRatio <= 0.6, with vowelRatio = vowelCount / length
      isPronounceable == /\ ~hardConsonants(domainName)
                         /\ length > 0
                         /\ 5 * vowelCount >= length
                         /\ 5 * vowelCount <= 3 * length
      hasDoubleLetters == \E i \in 1..(length - 1) : Char(domainName, i) = Char(domainName, i + 1)
      endsWith_ly_er_ed == \E e \in {"ly", "er", "ed", "ing", "tion"} : endsWith(domainName, e)
      hasCommonPrefixes == \E p \in BrandablePrefixes : startsWith(domainName, p)
      hasIndustryKeywords == \E k \in BrandableKeywords : includes(domainName, k)
      score == 65
        + (IF length >= 4 /\ length <= 6 THEN 25
           ELSE IF length = 7 \/ length = 8 THEN 15
           ELSE IF length = 3 THEN 10
           ELSE IF length >= 9 /\ length <= 11 THEN 0 - 5
           ELSE IF length >= 12 THEN 0 - 20
           ELSE IF length <= 2 THEN 0 - 30
           ELSE 0)
        - (IF hasHyphen THEN 20 ELSE 0)
        - (IF hasNumber /\ length <= 8 THEN 8 ELSE IF hasNumber THEN 15 ELSE 0)
        - (IF hasSpecialChars THEN 25 ELSE 0)
        - (IF ~isPronounceable THEN 25 ELSE 0)
        + (IF hasDoubleLetters /\ length <= 8 THEN 5 ELSE 0)
        + (IF endsWith_ly_er_ed THEN 8 ELSE 0)
        + (IF hasCommonPrefixes THEN 5 ELSE 0)
        + (IF hasIndustryKeywords THEN 12 ELSE 0)
        + brandTldScore(tld)
    IN [score |-> Max(15, Min(90, score)), commentary |-> "fallback"]
      named(domainName) == analysis(domainName, toLowerCase(lastLabel(domain)), Len(domainName))
  IN named(stripSuffix(toLowerCase(domain), XaiSuffixes))

\* tldMultipliers[tld] || 0.5, in tenths
trafficTldMultiplier(tld) ==
  CASE tld = "com" -> 45 [] tld = "net" -> 22 [] tld = "org" -> 18 [] tld = "io" -> 25
    [] tld = "ai" -> 20 [] tld = "co" -> 16 [] tld = "app" -> 14 [] tld = "tech" -> 13
    [] tld = "dev" -> 12 [] tld = "me" -> 11 [] tld = "tv" -> 10 [] tld = "cc" -> 9
    [] tld = "biz" -> 8 [] tld = "info" -> 7 [] tld = "xyz" -> 6
    [] OTHER -> 5

\* trafficKeywords: category keywords and multiplier in tenths
trafficKeywords ==
  { [keywords |-> {"shop", "store", "buy", "sell", "sale", "cart", "market", "deal", "price"},
     multiplier |-> 35],
    [keywords |-> {"app", "software", "tech", "code", "dev", "api", "cloud", "data", "ai", "bot"},
     multiplier |-> 28],
    [keywords |-> {"bank", "pay", "money", "crypto", "invest", "finance", "loan", "credit"},
     multiplier |-> 32],
    [keywords |-> {"health", "medical", "doctor", "care", "wellness", "fitness", "therapy"},
     multiplier |-> 25],
    [keywords |-> {"travel", "hotel", "flight", "trip", "vacation", "booking"},
     multiplier |-> 23],
    [keywords |-> {"news", "blog", "media", "tv", "video", "stream"},
     multiplier |-> 21],
    [keywords |-> {"game", "play", "fun", "entertainment", "sport"},
     multiplier |-> 19],
    [keywords |-> {"real", "estate", "home", "house", "property", "rent"},
     multiplier |-> 24],
    [keywords |-> {"learn", "education", "course", "study", "school", "training"},
     multiplier |-> 18] }

TrafficCommonWords ==
  {"app", "web", "shop", "news", "blog", "tech", "pro", "max", "plus", "smart", "fast", "easy"}

estimateTrafficFallback(domain) ==
  LET clamp(traffic) == [monthlyTraffic |-> Num(Max(10, Min(5000, traffic))), explanation |-> "fallback"]
      common(domainName, traffic) ==
        clamp(IF domainName \in TrafficCommonWords THEN RoundDiv(traffic * 15, 10) ELSE traffic)
      numbered(domainName, traffic) ==
        common(domainName, IF hasDigit(domainName) /\ Len(domainName) > 8
                           THEN RoundDiv(traffic * 8, 10) ELSE traffic)
      hyphened(domainName, traffic) ==
        numbered(domainName, IF includes(domainName, "-") THEN RoundDiv(traffic * 6, 10) ELSE traffic)
      \* the highest multiplier above 1.0 among the matched categories
      categorised(domainName, traffic, matched) ==
        hyphened(domainName,
                 IF matched = {} THEN RoundDiv(traffic * 10, 10)
                 ELSE RoundDiv(traffic * (CHOOSE c \in matched :
                                            \A d \in matched : d.multiplier <= c.multiplier).multiplier,
                               10))
      based(domainName, last, length) ==
        LET tld == IF last = "" THEN "com" ELSE last
            baseTraffic == IF length <= 4 THEN 800
                           ELSE IF length <= 6 THEN 400
                           ELSE IF length <= 8 THEN 150
                           ELSE IF length <= 10 THEN 75
                           ELSE IF length <= 12 THEN 40
                           ELSE 20
        IN categorised(domainName, RoundDiv(baseTraffic * trafficTldMultiplier(tld), 10),
                       { c \in trafficKeywords : \E k \in c.keywords : includes(domainName, k) })
      named(domainName) == based(domainName, toLowerCase(lastLabel(domain)), Len(domainName))
  IN named(stripSuffix(toLowerCase(domain), XaiSuffixes))

-----------------------------------------------------------------------------
(* xai: the adapters.  What the remote side did is the argument `o`:        *)
(* o.kind is "no_key" (credentials missing, no call made), "timeout" (the  *)
(* adapter's timer won the race), "error" (the call rejected or answered    *)
(* non-2xx), "bad_json" (the payload did not parse or lacks its fields) or *)
(* "ok" (a JSON payload, whose fields are in o).  A payload string is a    *)
(* string that is not numeric.                                             *)

\* Math.max(0, Math.min(100, Math.round(v || 0)))
clampScore(v) ==
  IF ~Truthy(v) THEN Num(0)
  ELSE IF IsNum(v) THEN Num(Max(0, Min(100, v.n)))
  ELSE NaN

analyzeBrandability(domain, o) ==
  IF o.kind = "ok"
  THEN [score |-> clampScore(o.score), commentary |-> "ai"]
  ELSE [score |-> Num(analyzeBrandabilityFallback(domain).score), commentary |-> "fallback"]

\* Math.max(0, Math.round(v || 100))
clampTraffic(v) ==
  IF ~Truthy(v) THEN Num(100)
  ELSE IF IsNum(v) THEN Num(Max(0, v.n))
  ELSE NaN

estimateTraffic(domain, o) ==
  IF o.kind = "ok"
  THEN [threw |-> FALSE, monthlyTraffic |-> clampTraffic(o.monthlyTraffic), explanation |-> "ai"]
  ELSE [threw |-> FALSE, monthlyTraffic |-> estimateTrafficFallback(domain).monthlyTraffic,
        explanation |-> "fallback"]

analyzeTrademarkRisk(domain, o) ==
  IF o.kind = "ok"
  THEN [threw |-> FALSE, hasConflict |-> o.hasConflict, severity |-> OrElse(o.severity, Str("clear"))]
  ELSE [threw |-> FALSE, hasConflict |-> FALSE, severity |-> Str("clear")]

\* o.kind is "no_key", "error" or "ok"; there is no "timeout": the call is not raced
estimateAvailabilityWithAI(domain, o) ==
  IF o.kind = "ok"
  THEN [domain |-> domain, isAvailable |-> o.isAvailable, ageInYears |-> Undefined,
        status |-> IF o.isAvailable THEN "Likely Available (AI Estimate)"
                   ELSE "Likely Registered (AI Estimate)"]
  ELSE [domain |-> domain, isAvailable |-> FALSE, ageInYears |-> Undefined, status |-> "Unknown"]

\* o.kind is "no_key", "error" or "ok" (o.isAvailable, o.age: the age computed from
\* create_date in tenths of a year, NaN for an unparsable date, Undefined without
\* one); o.ai is what the availability estimate's own call did
getWhoisData(domain, o) ==
  IF o.kind = "ok"
  THEN [domain |-> domain, isAvailable |-> o.isAvailable, ageInYears |-> o.age, status |-> "whois"]
  ELSE estimateAvailabilityWithAI(domain, o.ai)

-----------------------------------------------------------------------------
(* database-comps: the comparable-sales matcher *)

extractDomainInfo(domain) ==
  LET info(lowerDomain, tld, domainName) ==
        IF ~includes(lowerDomain, ".") \/ tld = "" \/ domainName = ""
        THEN [ok |-> FALSE, domainName |-> "", tld |-> "", domainLength |-> 0,
              hasHyphens |-> FALSE, hasNumbers |-> FALSE]
        ELSE [ok |-> TRUE, domainName |-> domainName, tld |-> tld,
              domainLength |-> Len(domainName),
              hasHyphens |-> includes(domainName, "-"),
              hasNumbers |-> hasDigit(domainName)]
      clean(lowerDomain) == info(lowerDomain, extractTLD(lowerDomain), extractDomainName(lowerDomain))
  IN clean(trim(toLowerCase(domain)))

estimatePriceRange(domainInfo) ==
  LET baseMin == IF domainInfo.tld = "com" THEN 500
                 ELSE IF domainInfo.tld \in {"net", "org"} THEN 200
                 ELSE IF domainInfo.tld \in {"io", "ai"} THEN 300
                 ELSE 100
      baseMax == IF domainInfo.tld = "com" THEN 500000
                 ELSE IF domainInfo.tld \in {"net", "org"} THEN 100000
                 ELSE IF domainInfo.tld \in {"io", "ai"} THEN 150000
                 ELSE 100000
  IN IF domainInfo.domainLength <= 4 THEN [min |-> baseMin * 5, max |-> baseMax * 10]
     ELSE IF domainInfo.domainLength <= 6 THEN [min |-> baseMin * 2, max |-> baseMax * 5]
     ELSE IF domainInfo.domainLength >= 15
          \* prices are whole numbers: the thirds of baseMax are rounded down here
          THEN [min |-> Max(100, baseMin \div 2), max |-> Max(1000, baseMax \div 3)]
     ELSE [min |-> baseMin, max |-> baseMax]

\* part.match(/[a-z]+/g): the maximal runs of lower-case letters of s, in order
RECURSIVE letterRuns(_)
letterRuns(s) ==
  LET cut(end) == << SubSeq(s, 1, end) >> \o letterRuns(SubSeq(s, end + 1, Len(s)))
      first(stops) == cut(IF stops = {} THEN Len(s)
                          ELSE (CHOOSE i \in stops : \A j \in stops : i <= j) - 1)
  IN IF Len(s) = 0 THEN << >>
     ELSE IF Char(s, 1) \notin LowerLetters THEN letterRuns(SubSeq(s, 2, Len(s)))
     ELSE first({ i \in 1..Len(s) : Char(s, i) \notin LowerLetters })

\* the words of extractWords, as the set the Jaccard index is taken over; '-' and
\* '_' are not letters, so splitting on them first yields the same runs
extractWords(domain) ==
  LET long(runs) == { runs[i] : i \in { k \in 1..Len(runs) : Len(runs[k]) >= 2 } }
  IN long(letterRuns(toLowerCase(domain)))

SimilarityIndustryKeywords ==
  {"shop", "buy", "sell", "tech", "app", "web", "net", "online", "digital"}

\* calculateKeywordSimilarity as the fraction num / den (den > 0)
calculateKeywordSimilarity(target, candidate) ==
  LET prefixBonus == IF \/ startsWith(target, SubSeq(candidate, 1, Min(3, Len(candidate))))
                        \/ startsWith(candidate, SubSeq(target, 1, Min(3, Len(target))))
                     THEN 20 ELSE 0
      industryBonus == IF /\ \E kw \in SimilarityIndustryKeywords : includes(target, kw)
                          /\ \E kw \in SimilarityIndustryKeywords : includes(candidate, kw)
                       THEN 15 ELSE 0
      fraction(common, den, bonus) == [num |-> Min(100 * den, common * 60 + bonus * den), den |-> den]
      jaccard(targetSet, candidateSet) ==
        IF target = candidate THEN [num |-> 100, den |-> 1]
        ELSE IF targetSet = {} \/ candidateSet = {} THEN [num |-> 20, den |-> 1]
        ELSE fraction(Cardinality(targetSet \cap candidateSet),
                      Cardinality(targetSet \cup candidateSet), prefixBonus + industryBonus)
  IN jaccard(extractWords(target), extractWords(candidate))

calculateStructureSimilarity(target, candidate) ==
  Max(0, 100 - (IF target.hasHyphens # candidate.hasHyphens THEN 30 ELSE 0)
             - (IF target.hasNumbers # candidate.hasNumbers THEN 20 ELSE 0))

lengthSimilarity(target, candidate) ==
  LET d == target.domainLength - candidate.domainLength
      lengthDiff == IF d < 0 THEN 0 - d ELSE d
  IN Max(0, 100 - lengthDiff * 10)

\* the TLD sub-score with the .com test made on the target alone
tldSimilarityOfTarget(target, candidate) ==
  IF target.tld = candidate.tld THEN 100
  ELSE IF target.tld = "com" THEN 60
  ELSE 40

tldSimilarity(target, candidate) ==
  IF target.tld = candidate.tld THEN 100
  ELSE IF target.tld = "com" \/ candidate.tld = "com" THEN 60
  ELSE 40

\* Math.round(calculateSimilarity(target, candidate, DEFAULT_SIMILARITY_WEIGHTS)):
\* weights 0.3, 0.25, 0.3, 0.15 in hundredths
roundedSimilarity(target, candidate) ==
  LET rounded(kw) ==
        Min(100, Max(0, RoundDiv(kw.den * ( 30 * lengthSimilarity(target, candidate)
                                          + 25 * tldSimilarity(target, candidate)
                                          + 15 * calculateStructureSimilarity(target, candidate) )
                                 + 30 * kw.num,
                                 100 * kw.den)))
  IN rounded(calculateKeywordSimilarity(target.domainName, candidate.domainName))

\* the rows of `rows` (a sequence) that satisfy keep, in order
filterSeq(rows, keep(_)) == SelectSeq(rows, keep)

\* rows sorted by descending key; rows with equal keys keep their order
sortDesc(rows, key(_)) ==
  LET rank(i) == 1 + Cardinality({ j \in 1..Len(rows) :
                                     \/ key(rows[j]) > key(rows[i])
                                     \/ (key(rows[j]) = key(rows[i]) /\ j < i) })
  IN [ k \in 1..Len(rows) |-> rows[CHOOSE i \in 1..Len(rows) : rank(i) = k] ]

\* the slice taken from the other end: the last n rows
lastN(rows, n) == SubSeq(rows, Max(1, Len(rows) - n + 1), Len(rows))

firstN(rows, n) == SubSeq(rows, 1, Min(n, Len(rows)))

MinSaleDate == 20140101

\* the query of domain_sales: the rows in the price range sold since 2014, newest
\* first, limit * 10 of them at most
queryCandidates(rows, range, limit) ==
  LET rowDate(row) == row.date
      inRange(row) == row.price >= range.min /\ row.price <= range.max /\ row.date >= MinSaleDate
  IN firstN(sortDesc(filterSeq(rows, inRange), rowDate), limit * 10)

\* db.kind is "unavailable" (no client), "error" (the query failed) or "rows";
\* db.rows is the domain_sales table
findDatabaseComparables(targetDomain, limit, db) ==
  LET similar(c) == c.similarity >= 40
      similarityOf(c) == c.similarity
      scored(targetInfo, candidate, info) ==
        [ domain |-> candidate.domain,
          soldPrice |-> candidate.price,
          soldDate |-> candidate.date,
          similarity |-> IF info.ok THEN roundedSimilarity(targetInfo, info) ELSE 0 - 1 ]
      ranked(targetInfo, candidates) ==
        firstN(sortDesc(filterSeq([ i \in 1..Len(candidates) |->
                                      scored(targetInfo, candidates[i],
                                             extractDomainInfo(candidates[i].domain)) ],
                                  similar),
                        similarityOf),
               limit)
      matched(targetInfo) ==
        IF ~targetInfo.ok \/ db.kind # "rows" THEN << >>
        ELSE ranked(targetInfo, queryCandidates(db.rows, estimatePriceRange(targetInfo), limit))
  IN matched(extractDomainInfo(targetDomain))

\* sample-comps findComparables: the database matcher again, never throwing
findComparables(domain, limit, db) == findDatabaseComparables(domain, limit, db)

-----------------------------------------------------------------------------
(* valuation: age, traffic and legal risk *)

\* o.kind is "no_key" (the key check throws), "error" (the request failed: null)
\* or "ok" (o.age as in getWhoisData, Undefined when create_date is missing)
fetchDomainAge(domain, o) ==
  IF o.kind = "no_key" THEN [threw |-> TRUE, age |-> Null]
  ELSE IF o.kind = "ok" /\ o.age.t # "undefined" THEN [threw |-> FALSE, age |-> o.age]
  ELSE [threw |-> FALSE, age |-> Null]

\* whether scoreDomainAge goes to the network for these arguments
ageNeedsNetwork(providedAgeInYears, skipNetwork) ==
  ~Truthy(providedAgeInYears) /\ ~skipNetwork

scoreDomainAge(domain, providedAgeInYears, skipNetwork, o) ==
  IF Truthy(providedAgeInYears)
  THEN [score |-> calculateAgeScore(providedAgeInYears), dataSource |-> "user_provided"]
  ELSE IF skipNetwork
  THEN [score |-> 25, dataSource |-> "estimated"]
  ELSE LET scored(fetched) ==
             IF fetched.threw THEN [score |-> 25, dataSource |-> "fallback"]
             ELSE IF fetched.age.t # "null"
             THEN [score |-> calculateAgeScore(fetched.age), dataSource |-> "ip2whois_api"]
             ELSE [score |-> 25, dataSource |-> "fallback"]
       IN scored(fetchDomainAge(domain, o))

estimateDomainTraffic(domain, o) ==
  LET passed(trafficEstimate) ==
        IF trafficEstimate.threw THEN [threw |-> FALSE, monthlyTraffic |-> Num(100)]
        ELSE [threw |-> FALSE, monthlyTraffic |-> trafficEstimate.monthlyTraffic]
  IN passed(estimateTraffic(domain, o))

\* whether scoreDomainTraffic calls the estimation adapter for this argument
trafficNeedsNetwork(providedMonthlyTraffic) ==
  ~(Truthy(providedMonthlyTraffic) /\ GreaterEq(providedMonthlyTraffic, 1))

scoreDomainTraffic(domain, providedMonthlyTraffic, o) ==
  IF ~trafficNeedsNetwork(providedMonthlyTraffic)
  THEN [score |-> calculateTrafficScore(providedMonthlyTraffic), dataSource |-> "user_provided"]
  ELSE LET scored(estimate) ==
             IF estimate.threw
             THEN [score |-> 20, dataSource |-> "fallback"]
             ELSE [score |-> calculateTrafficScore(estimate.monthlyTraffic),
                   dataSource |-> "ai_estimate"]
       IN scored(estimateDomainTraffic(domain, o))

LEGAL_BRANDS ==
  { "google", "facebook", "amazon", "microsoft", "apple", "twitter", "instagram",
    "youtube", "linkedin", "netflix", "tesla", "uber", "airbnb", "spotify",
    "paypal", "visa", "mastercard", "coca-cola", "pepsi", "nike", "adidas",
    "samsung", "sony", "intel", "oracle", "salesforce", "adobe", "zoom",
    "slack", "dropbox", "github", "reddit", "pinterest", "snapchat", "tiktok",
    "whatsapp", "telegram", "discord", "twitch", "shopify", "square", "stripe" }

ENHANCED_LEGAL_BRANDS ==
  LEGAL_BRANDS \cup
  { "chatgpt", "openai", "anthropic", "claude", "midjourney", "stability",
    "binance", "coinbase", "kraken", "ftx", "ethereum", "polygon",
    "shopify", "etsy", "walmart", "target", "bestbuy", "macys",
    "booking", "expedia", "marriott", "hilton", "hyatt", "airbnb" }

\* \w
WordChars == LowerLetters \cup UpperLetters \cup Digits \cup {"_"}

\* new RegExp(`\\b${brand}\\b`).test(s), for a brand that starts and ends with a
\* word character
wordBoundaryMatch(s, brand) ==
  \E i \in 1..(Len(s) - Len(brand) + 1) :
    /\ SubSeq(s, i, i + Len(brand) - 1) = brand
    /\ (i = 1 \/ Char(s, i - 1) \notin WordChars)
    /\ (i + Len(brand) - 1 = Len(s) \/ Char(s, i + Len(brand)) \notin WordChars)

\* multipliers are in tenths
assessStaticLegalRisk(domainName) ==
  IF \E brand \in ENHANCED_LEGAL_BRANDS : domainName = brand
  THEN [flag |-> Str("severe"), multiplier |-> 0, score |-> 0]
  ELSE IF \E brand \in ENHANCED_LEGAL_BRANDS :
            \E suffix \in {"s", "app", "api", "pro", "hub", "store"} :
              domainName = brand \o suffix
  THEN [flag |-> Str("warning"), multiplier |-> 7, score |-> 40]
  ELSE IF \E brand \in ENHANCED_LEGAL_BRANDS :
            Len(brand) >= 5 /\ wordBoundaryMatch(domainName, brand)
  THEN [flag |-> Str("warning"), multiplier |-> 6, score |-> 30]
  ELSE [flag |-> Str("clear"), multiplier |-> 10, score |-> 100]

checkAITrademarkConflicts(term, o) ==
  LET passed(trademarkResult) ==
        [threw |-> trademarkResult.threw,
         hasConflict |-> trademarkResult.hasConflict,
         severity |-> trademarkResult.severity]
  IN passed(analyzeTrademarkRisk(term, o))

assessLegalRisk(domain, o) ==
  LET assessed(domainName, trademarkResult, severity) ==
        IF ~trademarkResult.threw /\ trademarkResult.hasConflict
        THEN [flag |-> severity,
              multiplier |-> IF severity = Str("severe") THEN 0
                             ELSE IF severity = Str("warning") THEN 5 ELSE 10,
              score |-> IF severity = Str("severe") THEN 0
                        ELSE IF severity = Str("warning") THEN 25 ELSE 100]
        ELSE assessStaticLegalRisk(domainName)
      checked(domainName, trademarkResult) ==
        assessed(domainName, trademarkResult, trademarkResult.severity)
      named(domainName) == checked(domainName, checkAITrademarkConflicts(domainName, o))
  IN named(stripSuffix(toLowerCase(domain), KeywordSuffixes))

-----------------------------------------------------------------------------
(* valuation: price bracket and price estimate *)

\* a final score is kept in units of 1 / ScoreScale
ScoreScale == 100 * 10 * 10 * 100

mapScoreToPriceBracket(score, domain) ==
  LET bracket(isPremium3Letter, isPremium4Letter) ==
        IF GreaterEq(score, 80 * ScoreScale)
        THEN (IF isPremium3Letter THEN [min |-> 50000, max |-> 500000, bracket |-> "80-100"]
              ELSE IF isPremium4Letter THEN [min |-> 25000, max |-> 100000, bracket |-> "80-100"]
              ELSE [min |-> 5000, max |-> 50000, bracket |-> "80-100"])
        ELSE IF GreaterEq(score, 60 * ScoreScale)
        THEN (IF isPremium3Letter THEN [min |-> 25000, max |-> 100000, bracket |-> "60-80"]
              ELSE IF isPremium4Letter THEN [min |-> 10000, max |-> 50000, bracket |-> "60-80"]
              ELSE [min |-> 1000, max |-> 5000, bracket |-> "60-80"])
        ELSE IF GreaterEq(score, 40 * ScoreScale)
        THEN (IF isPremium3Letter THEN [min |-> 10000, max |-> 50000, bracket |-> "40-60"]
              ELSE IF isPremium4Letter THEN [min |-> 5000, max |-> 25000, bracket |-> "40-60"]
              ELSE [min |-> 300, max |-> 1000, bracket |-> "40-60"])
        ELSE IF GreaterEq(score, 20 * ScoreScale)
        THEN [min |-> 100, max |-> 300, bracket |-> "20-40"]
        ELSE [min |-> 25, max |-> 100, bracket |-> "0-20"]
      sized(isCom, length) == bracket(isCom /\ length = 3, isCom /\ length = 4)
  IN sized(domain # "" /\ extractTLD(domain) = "com", Len(extractDomainName(domain)))

\* prices are kept in half dollars: a bracket midpoint may end in .5
calculatePriceEstimate(finalScore, compsMedian, domain) ==
  LET blended(bracket, retailPrice) ==
        [investor |-> 2 * RoundDiv(6 * retailPrice, 10), retail |-> 2 * retailPrice,
         explanation |-> "comps"]
      \* Math.round(0.6 * compsMedian + 0.4 * bracketMidpoint)
      estimate(bracket) ==
        IF Truthy(compsMedian) /\ GreaterEq(compsMedian, 1)
        THEN blended(bracket, RoundDiv(6 * compsMedian.n + 2 * (bracket.min + bracket.max), 10))
        ELSE [investor |-> 2 * bracket.min, retail |-> bracket.min + bracket.max,
              explanation |-> IF Truthy(compsMedian) THEN "comps" ELSE "algorithmic"]
  IN estimate(mapScoreToPriceBracket(finalScore, domain))

-----------------------------------------------------------------------------
(* valuation: evaluateDomain *)

\* weights are in hundredths
DEFAULT_WEIGHTS ==
  [ length |-> 12, keywords |-> 20, tld |-> 15, brandability |-> 15, industry |-> 10,
    comps |-> 12, age |-> 6, traffic |-> 4, liquidity |-> 6, legal |-> 0 ]

PREMIUM_SHORT_WEIGHTS ==
  [ length |-> 25, keywords |-> 15, tld |-> 20, brandability |-> 15, industry |-> 5,
    comps |-> 10, age |-> 3, traffic |-> 2, liquidity |-> 15, legal |-> 0 ]

isPremiumShortDomain(domain) ==
  LET short(length, tld) ==
        \/ (tld = "com" /\ length <= 4)
        \/ (tld \in {"net", "org"} /\ length <= 3)
        \/ (tld \in {"io", "ai"} /\ length <= 3)
  IN short(Len(extractDomainName(domain)), extractTLD(domain))

adjustedWeights(domain, weights) ==
  IF isPremiumShortDomain(domain) THEN PREMIUM_SHORT_WEIGHTS ELSE weights

\* the options of a request that names none
NoOptions ==
  [ userTraffic |-> Undefined, country |-> Undefined, useComps |-> Undefined,
    domainAge |-> Undefined, skipWhois |-> Undefined ]

\* the WHOIS record evaluateDomain uses when options.skipWhois is set
skippedWhoisData(domain) ==
  [domain |-> domain, isAvailable |-> TRUE, ageInYears |-> Num(0), status |-> "skipped"]

\* whether evaluateDomain loads comparables: options.useComps !== false
usesComps(options) == options.useComps # Bool(FALSE)

\* db.kind is what the first query of domain_sales did, db.retry what a second did
loadComparables(domain, options, db) ==
  LET orSample(comparables) ==
        IF Len(comparables) = 0
        THEN findComparables(domain, 5, [kind |-> db.retry, rows |-> db.rows])
        ELSE comparables
  IN IF usesComps(options) THEN orSample(findDatabaseComparables(domain, 5, db)) ELSE << >>

\* the premium multiplier, in hundredths
premiumMultiplier(domain) ==
  LET bonus(domainName, tld) ==
        IF tld = "com" /\ Len(domainName) = 3 /\ isLowerAlpha(domainName) THEN 130
        ELSE IF tld = "com" /\ Len(domainName) = 4 /\ isLowerAlpha(domainName) THEN 115
        ELSE 100
  IN bonus(extractDomainName(domain), extractTLD(domain))

\* the availability multiplier, in tenths
availabilityMultiplier(options, whoisData) ==
  IF Truthy(options.skipWhois) THEN 8 ELSE IF whoisData.isAvailable THEN 10 ELSE 6

RECURSIVE sumContributions(_)
sumContributions(breakdown) ==
  IF Len(breakdown) = 0 THEN Num(0)
  ELSE NAdd(Head(breakdown).contribution, sumContributions(Tail(breakdown)))

\* sortedComparables[Math.floor(sortedComparables.length / 2)].soldPrice
compsMedian(comparables) ==
  LET negPrice(c) == 0 - c.soldPrice
      middle(sortedComparables) == Num(sortedComparables[(Len(sortedComparables) \div 2) + 1].soldPrice)
  IN IF Len(comparables) > 0 THEN middle(sortDesc(comparables, negPrice)) ELSE Undefined

factorEntry(factor, score, weight) ==
  [factor |-> factor, score |-> score, weight |-> weight, contribution |-> NMul(Num(weight), score)]

\* evaluateDomain from the weighted sum on: the DomainAppraisal it returns, or
\* threw: the TypeError of legalRisk.flag.toUpperCase() on a flag that is no string
finishEvaluation(domain, options, weights, whoisData, comparables,
                 ageResult, trafficResult, brandabilityResult, legalRisk) ==
  LET appraised(breakdown, finalScore) ==
        [ threw |-> legalRisk.flag.t # "str",
          appraisal |->
            [ domain |-> domain,
              finalScore |-> finalScore,
              bracket |-> mapScoreToPriceBracket(finalScore, domain).bracket,
              priceEstimate |-> calculatePriceEstimate(finalScore, compsMedian(comparables), domain),
              breakdown |-> breakdown,
              legalFlag |-> legalRisk.flag,
              aiComment |-> brandabilityResult.commentary,
              comps |-> comparables,
              whoisData |-> whoisData ] ]
      multiplied(breakdown, rawScore) ==
        appraised(breakdown,
                  NMul(NMul(NMul(rawScore, Num(legalRisk.multiplier)),
                            Num(availabilityMultiplier(options, whoisData))),
                       Num(premiumMultiplier(domain))))
      summed(breakdown) == multiplied(breakdown, sumContributions(breakdown))
      weighed(w, keywordResult) ==
        summed(<< factorEntry("length", Num(scoreLengthAndSimplicity(domain)), w.length),
                  factorEntry("keywords", Num(keywordResult.score), w.keywords),
                  factorEntry("tld", Num(scoreTLD(domain, options.country)), w.tld),
                  factorEntry("brandability", brandabilityResult.score, w.brandability),
                  factorEntry("industry",
                              Num(scoreIndustryRelevance(keywordResult.industry,
                                                         keywordResult.keywords)),
                              w.industry),
                  factorEntry("comps", Num(scoreComparableSales(domain, comparables)), w.comps),
                  factorEntry("age", Num(ageResult.score), w.age),
                  factorEntry("traffic", Num(trafficResult.score), w.traffic),
                  factorEntry("liquidity", Num(scoreLiquidity(domain)), w.liquidity),
                  [factor |-> "legal", score |-> Num(legalRisk.score), weight |-> 0,
                   contribution |-> Num(0)],
                  [factor |-> "availability",
                   score |-> Num(IF Truthy(options.skipWhois) THEN 80
                                 ELSE IF whoisData.isAvailable THEN 100 ELSE 60),
                   weight |-> 0, contribution |-> Num(0)] >>)
  IN weighed(adjustedWeights(domain, weights), scoreKeywords(domain))

\* the WHOIS record of an evaluation: whoisOut is what getWhoisData's call did
evaluationWhois(domain, options, whoisOut) ==
  IF Truthy(options.skipWhois) THEN skippedWhoisData(domain) ELSE getWhoisData(domain, whoisOut)

\* evaluateDomain(domain, options, weights) when the adapters behave as `out` says
evaluateDomain(domain, options, weights, out) ==
  LET scored(whoisData) ==
        finishEvaluation(domain, options, weights, whoisData,
                         loadComparables(domain, options, out.db),
                         scoreDomainAge(domain, OrElse(whoisData.ageInYears, options.domainAge),
                                        Truthy(options.skipWhois), out.age),
                         scoreDomainTraffic(domain, options.userTraffic, out.traffic),
                         analyzeBrandability(domain, out.brand),
                         assessLegalRisk(domain, out.trademark))
  IN scored(evaluationWhois(domain, options, out.whois))

-----------------------------------------------------------------------------
(* rate-limiter *)

RATE_LIMIT == 3
WINDOW_MS == 3600 * 1000

\* the sweep deleting every entry, expired or not
cleanupEverything(map, t) == << >>

\* the periodic sweep: entries whose window has passed are deleted
cleanupExpired(map, t) ==
  [ key \in { k \in DOMAIN map : ~(map[k].resetTime < t) } |-> map[key] ]

setEntry(map, ip, entry) ==
  [ key \in (DOMAIN map) \cup {ip} |-> IF key = ip THEN entry ELSE map[key] ]

\* checkRateLimit letting one call more through: the ceiling test as count > RATE_LIMIT
checkRateLimitCeilingPassed(map, ip, t, cleanup) ==
  LET swept == IF cleanup THEN cleanupExpired(map, t) ELSE map
  IN IF ip \notin DOMAIN map \/ map[ip].resetTime < t
     THEN [ map |-> setEntry(swept, ip, [count |-> 1, resetTime |-> t + WINDOW_MS]),
            allowed |-> TRUE, remaining |-> RATE_LIMIT - 1, resetTime |-> t + WINDOW_MS ]
     ELSE IF map[ip].count > RATE_LIMIT
     THEN [ map |-> swept, allowed |-> FALSE, remaining |-> 0,
            resetTime |-> map[ip].resetTime ]
     ELSE [ map |-> setEntry(swept, ip, [map[ip] EXCEPT !.count = @ + 1]),
            allowed |-> TRUE, remaining |-> RATE_LIMIT - (map[ip].count + 1),
            resetTime |-> map[ip].resetTime ]

\* checkRateLimit with a sliding window: every allowed call moves the reset time
checkRateLimitSlidingWindow(map, ip, t, cleanup) ==
  LET swept == IF cleanup THEN cleanupExpired(map, t) ELSE map
  IN IF ip \notin DOMAIN map \/ map[ip].resetTime < t
     THEN [ map |-> setEntry(swept, ip, [count |-> 1, resetTime |-> t + WINDOW_MS]),
            allowed |-> TRUE, remaining |-> RATE_LIMIT - 1, resetTime |-> t + WINDOW_MS ]
     ELSE IF map[ip].count >= RATE_LIMIT
     THEN [ map |-> swept, allowed |-> FALSE, remaining |-> 0,
            resetTime |-> map[ip].resetTime ]
     ELSE [ map |-> setEntry(swept, ip, [count |-> map[ip].count + 1,
                                         resetTime |-> t + WINDOW_MS]),
            allowed |-> TRUE, remaining |-> RATE_LIMIT - (map[ip].count + 1),
            resetTime |-> t + WINDOW_MS ]

\* checkRateLimit(ip) at Date.now() = t; cleanup is whether Math.random() < 0.01.
\* The result carries the map the call leaves behind.
checkRateLimit(map, ip, t, cleanup) ==
  LET swept == IF cleanup THEN cleanupExpired(map, t) ELSE map
  IN IF ip \notin DOMAIN map \/ map[ip].resetTime < t
     THEN [ map |-> setEntry(swept, ip, [count |-> 1, resetTime |-> t + WINDOW_MS]),
            allowed |-> TRUE, remaining |-> RATE_LIMIT - 1, resetTime |-> t + WINDOW_MS ]
     ELSE IF map[ip].count >= RATE_LIMIT
     THEN [ map |-> swept, allowed |-> FALSE, remaining |-> 0,
            resetTime |-> map[ip].resetTime ]
     ELSE [ map |-> setEntry(swept, ip, [map[ip] EXCEPT !.count = @ + 1]),
            allowed |-> TRUE, remaining |-> RATE_LIMIT - (map[ip].count + 1),
            resetTime |-> map[ip].resetTime ]

-----------------------------------------------------------------------------
(* appraise route: the store *)

cacheWindow == 24 * 60 * 60 * 1000

\* JSON.stringify of a number: NaN is written as null
toJSON(v) == IF v = NaN THEN Null ELSE v

\* a DECIMAL(5,2) column: two decimals are kept
toDecimal(v) ==
  LET cent == ScoreScale \div 100
  IN IF IsNum(v) THEN Num(RoundDiv(v.n, cent) * cent) ELSE v

parseFloat(v) == IF IsNum(v) THEN v ELSE NaN

OptionKeys == << "userTraffic", "country", "useComps", "domainAge", "skipWhois" >>

\* JSON.stringify(options): the keys that are present, in the order of OptionKeys
JSONstringify(options) ==
  SelectSeq([ i \in 1..Len(OptionKeys) |->
                [key |-> OptionKeys[i], value |-> options[OptionKeys[i]]] ],
            LAMBDA kv : kv.value # Undefined)

\* createHash('md5').update(text).digest('hex'), taken to be collision free
md5(text) == [hex |-> text]

\* a row whose options_hash is NULL
NullHash == [null |-> TRUE]

breakdownToJSON(breakdown) ==
  [ i \in 1..Len(breakdown) |->
      [ breakdown[i] EXCEPT !.score = toJSON(@), !.contribution = toJSON(@) ] ]

\* the row the route inserts; the insert fails when final_score is null
insertedRow(id, appraisal, optionsHash, t) ==
  [ id |-> id,
    domain |-> appraisal.domain,
    final_score |-> toDecimal(appraisal.finalScore),
    breakdown |-> breakdownToJSON(appraisal.breakdown),
    price_estimate |-> appraisal.priceEstimate,
    comps |-> appraisal.comps,
    legal_flag |-> appraisal.legalFlag,
    ai_comment |-> appraisal.aiComment,
    whois_data |-> appraisal.whoisData,
    options_hash |-> optionsHash,
    created_at |-> t ]

insertAccepted(appraisal) == IsNum(toJSON(appraisal.finalScore))

\* the cache query without its filter on options_hash
cacheMatchesAnyOptions(rows, cleanDomain, optionsHash, t) ==
  { row \in rows :
      /\ row.domain = cleanDomain
      /\ row.created_at > t - cacheWindow }

\* the cache query with the freshness test turned round: .lt for .gt
cacheMatchesOlder(rows, cleanDomain, optionsHash, t) ==
  { row \in rows :
      /\ row.domain = cleanDomain
      /\ (row.options_hash = optionsHash \/ row.options_hash = NullHash)
      /\ row.created_at < t - cacheWindow }

\* the rows the cache query selects, before ORDER BY and LIMIT
cacheMatches(rows, cleanDomain, optionsHash, t) ==
  { row \in rows :
      /\ row.domain = cleanDomain
      /\ (row.options_hash = optionsHash \/ row.options_hash = NullHash)
      /\ row.created_at > t - cacheWindow }

\* ORDER BY created_at DESC LIMIT 1: the rows the query may answer with
cachedResults(rows, cleanDomain, optionsHash, t) ==
  LET matches == cacheMatches(rows, cleanDomain, optionsHash, t)
  IN { row \in matches : \A other \in matches : other.created_at <= row.created_at }

getBracket(score) ==
  IF GreaterEq(score, 80 * ScoreScale) THEN "80-100"
  ELSE IF GreaterEq(score, 60 * ScoreScale) THEN "60-80"
  ELSE IF GreaterEq(score, 40 * ScoreScale) THEN "40-60"
  ELSE IF GreaterEq(score, 20 * ScoreScale) THEN "20-40"
  ELSE "0-20"

\* the appraisal the route answers with on a cache hit
cachedAppraisal(cached) ==
  [ domain |-> cached.domain,
    finalScore |-> parseFloat(cached.final_score),
    bracket |-> getBracket(parseFloat(cached.final_score)),
    priceEstimate |-> cached.price_estimate,
    breakdown |-> cached.breakdown,
    legalFlag |-> cached.legal_flag,
    aiComment |-> cached.ai_comment,
    comps |-> cached.comps,
    whoisData |-> cached.whois_data ]

\* /^[a-zA-Z0-9][a-zA-Z0-9-]*[a-zA-Z0-9]*\.([a-zA-Z]{2,}\.)*[a-zA-Z]{2,}$/
isValidDomain(cleanDomain) ==
  LET labels == split(cleanDomain, ".")
      alnum == LowerLetters \cup UpperLetters \cup Digits
      letters == LowerLetters \cup UpperLetters
  IN /\ Len(labels) >= 2
     /\ Len(labels[1]) >= 1
     /\ Char(labels[1], 1) \in alnum
     /\ \A i \in 1..Len(labels[1]) : Char(labels[1], i) \in alnum \cup {"-"}
     /\ \A k \in 2..Len(labels) :
          /\ Len(labels[k]) >= 2
          /\ \A i \in 1..Len(labels[k]) : Char(labels[k], i) \in letters

-----------------------------------------------------------------------------
(* Inputs and what the remote services may do *)

MaxRequests == 2
MaxTicks == 1
MaxDeletes == 1

Requests == 1..MaxRequests

Ips == { "c1", "c2" }

\* the "domain" member of a request body
BodyDomains == { Str("Ab.com "), Str("nodot"), Str(""), Num(7), Undefined }

\* the "options" member of a request body
BodyOptions == { NoOptions, [NoOptions EXCEPT !.country = Str("io")] }

FailureKinds == { "no_key", "timeout", "error", "bad_json" }

\* rows of domain_sales
DomainSales ==
  << [domain |-> "zebu.io", price |-> 4000, date |-> 20200101],
     [domain |-> "ac.com", price |-> 9000, date |-> 20210101],
     [domain |-> "old.com", price |-> 9000, date |-> 20100101] >>

BrandabilityOutcomes ==
  { [kind |-> k, score |-> Undefined] : k \in FailureKinds }
    \cup { [kind |-> "ok", score |-> s] : s \in { Num(70), Str("high") } }

TrafficOutcomes ==
  { [kind |-> k, monthlyTraffic |-> Undefined] : k \in FailureKinds }
    \cup { [kind |-> "ok", monthlyTraffic |-> Num(5000)] }

TrademarkOutcomes ==
  { [kind |-> k, hasConflict |-> FALSE, severity |-> Undefined] : k \in FailureKinds }
    \cup { [kind |-> "ok", hasConflict |-> c, severity |-> s] :
             c \in BOOLEAN, s \in { Str("severe"), Str("warning"), Num(3) } }

DbOutcomes ==
  { [kind |-> "unavailable", retry |-> "unavailable", rows |-> << >>],
    [kind |-> "error", retry |-> "rows", rows |-> DomainSales],
    [kind |-> "rows", retry |-> "rows", rows |-> DomainSales] }

AvailabilityOutcomes ==
  { [kind |-> "no_key", isAvailable |-> FALSE], [kind |-> "error", isAvailable |-> FALSE],
    [kind |-> "ok", isAvailable |-> TRUE] }

\* ages are in tenths of a year
WhoisOutcomes ==
  { [kind |-> k, isAvailable |-> FALSE, age |-> Undefined, ai |-> a] :
      k \in { "no_key", "error" }, a \in AvailabilityOutcomes }
    \cup { [kind |-> "ok", isAvailable |-> FALSE, age |-> Num(52),
            ai |-> [kind |-> "no_key", isAvailable |-> FALSE]],
           [kind |-> "ok", isAvailable |-> TRUE, age |-> Undefined,
            ai |-> [kind |-> "no_key", isAvailable |-> FALSE]] }

AgeOutcomes ==
  { [kind |-> "no_key", age |-> Undefined], [kind |-> "error", age |-> Undefined],
    [kind |-> "ok", age |-> Num(52)], [kind |-> "ok", age |-> Undefined] }

adapters(kind) ==
  [ whois |-> [kind |-> "error", isAvailable |-> FALSE, age |-> Undefined,
               ai |-> [kind |-> "error", isAvailable |-> FALSE]],
    age |-> [kind |-> "error", age |-> Undefined],
    db |-> [kind |-> "unavailable", retry |-> "unavailable", rows |-> << >>],
    traffic |-> [kind |-> kind, monthlyTraffic |-> Undefined],
    brand |-> [kind |-> kind, score |-> Undefined],
    trademark |-> [kind |-> kind, hasConflict |-> FALSE, severity |-> Undefined] ]

\* what the adapters do during one evaluation of the route, by name
RouteOutcomes ==
  [ k \in FailureKinds \cup { "up", "severity_3" } |->
      CASE k = "up" ->
             [ adapters("error") EXCEPT
                 !.db = [kind |-> "rows", retry |-> "rows", rows |-> DomainSales],
                 !.traffic = [kind |-> "ok", monthlyTraffic |-> Num(5000)],
                 !.brand = [kind |-> "ok", score |-> Num(70)],
                 !.trademark = [kind |-> "ok", hasConflict |-> FALSE, severity |-> Str("clear")] ]
        [] k = "severity_3" ->
             [ adapters("error") EXCEPT
                 !.trademark = [kind |-> "ok", hasConflict |-> TRUE, severity |-> Num(3)] ]
        [] OTHER -> adapters(k) ]

-----------------------------------------------------------------------------
(* appraise route: POST, one action per stretch between two awaits *)

NoRow == [id |-> 0, domain |-> "", options_hash |-> NullHash, created_at |-> 0]

NoBody == [error |-> ""]

NoRequest ==
  [ pc |-> "Idle", ip |-> "", body |-> "none", domain |-> Undefined, options |-> NoOptions,
    remaining |-> 0, status |-> 0, response |-> NoBody,
    \* what the model remembers of the run
    at |-> 0, lookupAt |-> 0, after |-> {}, lookup |-> "none", served |-> NoRow,
    called |-> {}, rowId |-> 0 ]

cleanDomainOf(r) == trim(toLowerCase(r.domain.s))

optionsHashOf(r) == md5(JSONstringify(r.options))

\* the requests that have been answered after their appraisal was stored
persisted(requests) == { q \in Requests : requests[q].pc = "Done" /\ requests[q].rowId # 0 }

\* the adapters evaluateDomain goes to for these options
adaptersCalled(options) ==
  (IF usesComps(options) THEN { "comps" } ELSE {})
    \cup (IF trafficNeedsNetwork(options.userTraffic) THEN { "traffic" } ELSE {})
    \cup { "brandability", "trademark" }

\* Post taking the limiter's verdict without keeping what it counted
PostWithoutCharge(r, ip, cleanup) ==
  /\ req[r].pc = "Idle"
  /\ r > 1 => req[r - 1].pc # "Idle"
  /\ LET rateLimit == checkRateLimit(rateLimitMap, ip, now, cleanup)
     IN /\ rateLimitMap' = rateLimitMap
        /\ req' = [ req EXCEPT ![r] =
                      IF rateLimit.allowed
                      THEN [ NoRequest EXCEPT !.pc = "RateChecked", !.ip = ip, !.at = now,
                                              !.remaining = rateLimit.remaining,
                                              !.after = persisted(req) ]
                      ELSE [ NoRequest EXCEPT !.pc = "Failed", !.ip = ip, !.at = now,
                                              !.status = 429,
                                              !.response = [error |-> "Rate limit exceeded"] ] ]
  /\ UNCHANGED <<now, ticks, rlCalls, appraisals, nextId, bg, ev, fn>>

\* POST up to the await of request.json(): the rate limit
Post(r, ip, cleanup) ==
  /\ req[r].pc = "Idle"
  /\ r > 1 => req[r - 1].pc # "Idle"
  /\ LET rateLimit == checkRateLimit(rateLimitMap, ip, now, cleanup)
     IN /\ rateLimitMap' = rateLimit.map
        /\ req' = [ req EXCEPT ![r] =
                      IF rateLimit.allowed
                      THEN [ NoRequest EXCEPT !.pc = "RateChecked", !.ip = ip, !.at = now,
                                              !.remaining = rateLimit.remaining,
                                              !.after = persisted(req) ]
                      ELSE [ NoRequest EXCEPT !.pc = "Failed", !.ip = ip, !.at = now,
                                              !.status = 429,
                                              !.response = [error |-> "Rate limit exceeded"] ] ]
  /\ UNCHANGED <<now, ticks, rlCalls, appraisals, nextId, bg, ev, fn>>

\* the body is read and validated, the cache query is sent with its threshold
\* new Date(Date.now() - 24h)
Validate(r, domain, options) ==
  /\ req[r].pc = "RateChecked"
  /\ req' = [ req EXCEPT ![r] =
                IF ~Truthy(domain) \/ domain.t # "str"
                THEN [ @ EXCEPT !.pc = "Failed", !.status = 400, !.body = "object",
                                !.domain = domain,
                                !.response = [error |-> "Valid domain name is required"] ]
                ELSE IF ~isValidDomain(trim(toLowerCase(domain.s)))
                THEN [ @ EXCEPT !.pc = "Failed", !.status = 400, !.body = "object",
                                !.domain = domain,
                                !.response = [error |-> "Invalid domain format"] ]
                ELSE [ @ EXCEPT !.pc = "CacheLookup", !.body = "object", !.domain = domain,
                                !.options = options,
                                !.lookupAt = now ] ]
  /\ UNCHANGED <<now, ticks, rateLimitMap, rlCalls, appraisals, nextId, bg, ev, fn>>

\* what request.json() can yield that has no members to destructure: the JSON
\* text null, or a body that is not JSON
UnreadableBodies == { "null", "not_json" }

\* request.json() rejects, or `const { domain, options = {} } = null` throws: the
\* outer catch answers
BodyUnreadable(r, body) ==
  /\ req[r].pc = "RateChecked"
  /\ req' = [ req EXCEPT ![r] =
                [ @ EXCEPT !.pc = "Failed", !.status = 500, !.body = body,
                           !.response = [error |-> "Failed to evaluate domain"] ] ]
  /\ UNCHANGED <<now, ticks, rateLimitMap, rlCalls, appraisals, nextId, bg, ev, fn>>

\* the cache query with the early return of a hit left out: the request goes on
\* to the valuation engine whatever the query found
LookupWithoutReturn(r, storeUp) ==
  /\ req[r].pc = "CacheLookup"
  /\ LET results == cachedResults(appraisals, cleanDomainOf(req[r]), optionsHashOf(req[r]),
                                  req[r].lookupAt)
     IN req' = [req EXCEPT ![r].pc = "Scoring",
                           ![r].lookup = IF ~storeUp THEN "failed"
                                         ELSE IF results = {} THEN "miss" ELSE "hit"]
  /\ UNCHANGED <<now, ticks, rateLimitMap, rlCalls, appraisals, nextId, bg, ev, fn>>

\* the cache query comes back: a row (the response is sent), none, or an error
Lookup(r, storeUp) ==
  /\ req[r].pc = "CacheLookup"
  /\ LET results == cachedResults(appraisals, cleanDomainOf(req[r]), optionsHashOf(req[r]),
                                  req[r].lookupAt)
     IN IF ~storeUp
        THEN req' = [req EXCEPT ![r].pc = "Scoring", ![r].lookup = "failed"]
        ELSE IF results = {}
        THEN req' = [req EXCEPT ![r].pc = "Scoring", ![r].lookup = "miss"]
        ELSE \E cached \in results :
               req' = [ req EXCEPT ![r] =
                          [ @ EXCEPT !.pc = "Done", !.status = 200, !.lookup = "hit",
                                     !.served = [ id |-> cached.id, domain |-> cached.domain,
                                                  options_hash |-> cached.options_hash,
                                                  created_at |-> cached.created_at ],
                                     !.response = cachedAppraisal(cached) ] ]
  /\ UNCHANGED <<now, ticks, rateLimitMap, rlCalls, appraisals, nextId, bg, ev, fn>>

\* evaluateDomain(cleanDomain, { ...options, skipWhois: true }) with the adapters
\* behaving as RouteOutcomes[k]; a throw reaches the outer catch
Evaluate(r, k) ==
  /\ req[r].pc = "Scoring"
  /\ LET options == [req[r].options EXCEPT !.skipWhois = Bool(TRUE)]
         answered(result) ==
           IF result.threw
           THEN [ req[r] EXCEPT !.pc = "Failed", !.status = 500,
                                !.called = adaptersCalled(options),
                                !.response = [error |-> "Failed to evaluate domain"] ]
           ELSE [ req[r] EXCEPT !.pc = "Persisting",
                                !.called = adaptersCalled(options),
                                !.response = result.appraisal ]
     IN req' = [ req EXCEPT ![r] =
                   answered(evaluateDomain(cleanDomainOf(req[r]), options, DEFAULT_WEIGHTS,
                                           RouteOutcomes[k])) ]
  /\ UNCHANGED <<now, ticks, rateLimitMap, rlCalls, appraisals, nextId, bg, ev, fn>>

\* Persist with the background WHOIS update started whatever the insert did
PersistThenAlwaysUpdate(r, storeUp) ==
  /\ req[r].pc = "Persisting"
  /\ IF storeUp /\ insertAccepted(req[r].response)
     THEN /\ appraisals' = appraisals \cup
                             { insertedRow(nextId, req[r].response, optionsHashOf(req[r]), now) }
          /\ req' = [req EXCEPT ![r].pc = "Done", ![r].status = 200, ![r].rowId = nextId]
     ELSE /\ req' = [req EXCEPT ![r].pc = "Done", ![r].status = 200]
          /\ UNCHANGED appraisals
  /\ nextId' = nextId + 1
  /\ bg' = bg \cup { [ id |-> nextId, domain |-> cleanDomainOf(req[r]), pc |-> "started" ] }
  /\ UNCHANGED <<now, ticks, rateLimitMap, rlCalls, ev, fn>>

\* the insert comes back and the response is sent; a stored row gets its
\* background WHOIS update
Persist(r, storeUp) ==
  /\ req[r].pc = "Persisting"
  /\ IF storeUp /\ insertAccepted(req[r].response)
     THEN /\ appraisals' = appraisals \cup
                             { insertedRow(nextId, req[r].response, optionsHashOf(req[r]), now) }
          /\ nextId' = nextId + 1
          /\ bg' = bg \cup { [ id |-> nextId, domain |-> cleanDomainOf(req[r]), pc |-> "started" ] }
          /\ req' = [req EXCEPT ![r].pc = "Done", ![r].status = 200, ![r].rowId = nextId]
     ELSE /\ req' = [req EXCEPT ![r].pc = "Done", ![r].status = 200]
          /\ UNCHANGED <<appraisals, nextId, bg>>
  /\ UNCHANGED <<now, ticks, rateLimitMap, rlCalls, ev, fn>>

-----------------------------------------------------------------------------
(* background-whois *)

\* the update written as an upsert: a row is made when none has the id
upsertWhoisData(rows, appraisalId, whoisData) ==
  IF \E row \in rows : row.id = appraisalId
  THEN { IF row.id = appraisalId THEN [row EXCEPT !.whois_data = whoisData] ELSE row : row \in rows }
  ELSE rows \cup { [ id |-> appraisalId, whois_data |-> whoisData ] }

\* the update with its filter on the domain of the appraisal instead of its id
updateWhoisDataOfDomain(rows, appraisalId, whoisData) ==
  { IF \E patched \in rows : patched.id = appraisalId /\ patched.domain = row.domain
    THEN [row EXCEPT !.whois_data = whoisData]
    ELSE row : row \in rows }

\* update({ whois_data }).eq('id', appraisalId): the rows of that id
updateWhoisData(rows, appraisalId, whoisData) ==
  { IF row.id = appraisalId THEN [row EXCEPT !.whois_data = whoisData] ELSE row : row \in rows }

\* updateWhoisInBackground: getWhoisData answers with o, the update is sent and
\* comes back (done, or an error that is only logged)
BackgroundUpdate(task, o, storeUp) ==
  /\ task \in bg
  /\ task.pc = "started"
  /\ appraisals' = IF storeUp
                   THEN updateWhoisData(appraisals, task.id, getWhoisData(task.domain, o))
                   ELSE appraisals
  /\ bg' = (bg \ {task}) \cup { [task EXCEPT !.pc = IF storeUp THEN "updated" ELSE "logged"] }
  /\ UNCHANGED <<now, ticks, rateLimitMap, rlCalls, nextId, req, ev, fn>>

\* a row is deleted from the table while its background update is under way
DeleteAppraisal(row) ==
  /\ row \in appraisals
  /\ \E task \in bg : task.id = row.id /\ task.pc = "started"
  /\ (nextId - 1) - Cardinality(appraisals) < MaxDeletes
  /\ appraisals' = appraisals \ {row}
  /\ UNCHANGED <<now, ticks, rateLimitMap, rlCalls, nextId, req, bg, ev, fn>>

TickMs == 24 * 60 * 60 * 1000

Tick ==
  /\ ticks < MaxTicks
  /\ now' = now + TickMs
  /\ ticks' = ticks + 1
  /\ UNCHANGED <<rateLimitMap, rlCalls, appraisals, nextId, req, bg, ev, fn>>

-----------------------------------------------------------------------------
(* evaluateDomain, one action per await *)

EvalDomains == { "ab.com", "pay.com", "zebra.io", "google.com", "google.co.uk" }

\* domainAge is in tenths of a year
EvalOptions ==
  { [NoOptions EXCEPT !.skipWhois = s, !.userTraffic = u, !.domainAge = a] :
      s \in { Undefined, Bool(TRUE) }, u \in { Undefined, Num(5000) },
      a \in { Undefined, Num(120) } }

EvalWeights ==
  { DEFAULT_WEIGHTS,
    [ length |-> 10, keywords |-> 10, tld |-> 10, brandability |-> 30, industry |-> 10,
      comps |-> 10, age |-> 5, traffic |-> 5, liquidity |-> 10, legal |-> 0 ] }

\* what process.env holds for a credential: nothing (or the empty string), a
\* placeholder such as 'your_api_key_here', or a key
KeyStates == { "missing", "placeholder", "set" }

EvalKeys == [xai : KeyStates, whois : KeyStates]

\* getOpenAIClient throws only for `!apiKey`
xaiKeyAccepted(apiKey) == apiKey # "missing"

\* getWhoisData and fetchDomainAge: !apiKey || apiKey.includes('your_') || apiKey.trim() === ''
whoisKeyAccepted(apiKey) == apiKey = "set"

\* the calls that are raced against a setTimeout
TimedCalls == { "estimateTraffic", "analyzeBrandability", "analyzeTrademarkRisk" }

\* the calls that go to the network with the credentials of `keys`
networkCalls(keys) ==
  { "findDatabaseComparables" }
    \cup (IF whoisKeyAccepted(keys.whois) THEN { "getWhoisData", "fetchDomainAge" } ELSE {})
    \cup (IF xaiKeyAccepted(keys.xai) THEN TimedCalls \cup { "getWhoisData" } ELSE {})

NoResult == [score |-> 0, dataSource |-> "none"]

NoEvaluation ==
  [ pc |-> "Idle", domain |-> "", options |-> NoOptions, weights |-> DEFAULT_WEIGHTS,
    keys |-> [xai |-> "missing", whois |-> "missing"], timer |-> FALSE, network |-> {},
    whoisData |-> skippedWhoisData(""), comparables |-> << >>, ageResult |-> NoResult,
    trafficResult |-> NoResult, trafficKind |-> "none", aiConflict |-> FALSE,
    brandabilityResult |-> [score |-> Num(0), commentary |-> "none"],
    legalRisk |-> [score |-> 0, multiplier |-> 0, flag |-> Undefined],
    appraisal |-> NoBody ]

await(e, call) == [e EXCEPT !.pc = call, !.timer = call \in TimedCalls]

finished(e) ==
  LET ended(result) ==
        IF result.threw THEN [e EXCEPT !.pc = "Failed", !.timer = FALSE]
        ELSE [e EXCEPT !.pc = "Done", !.timer = FALSE, !.appraisal = result.appraisal]
  IN ended(finishEvaluation(e.domain, e.options, e.weights, e.whoisData, e.comparables,
                            e.ageResult, e.trafficResult, e.brandabilityResult, e.legalRisk))

\* evaluateDomain from its s-th await on, up to the next call it has to wait for
RECURSIVE enter(_, _)
enter(e, s) ==
  LET skip == Truthy(e.options.skipWhois)
      provided == OrElse(e.whoisData.ageInYears, e.options.domainAge)
      unused == [kind |-> "error"]
  IN CASE s = 1 ->
            IF skip THEN enter([e EXCEPT !.whoisData = skippedWhoisData(e.domain)], 2)
            ELSE await(e, "getWhoisData")
       [] s = 2 ->
            IF usesComps(e.options) THEN await(e, "findDatabaseComparables")
            ELSE enter([e EXCEPT !.comparables = << >>], 3)
       [] s = 3 ->
            IF ageNeedsNetwork(provided, skip) THEN await(e, "fetchDomainAge")
            ELSE enter([e EXCEPT !.ageResult = scoreDomainAge(e.domain, provided, skip, unused)], 4)
       [] s = 4 ->
            IF trafficNeedsNetwork(e.options.userTraffic) THEN await(e, "estimateTraffic")
            ELSE enter([e EXCEPT !.trafficResult =
                                   scoreDomainTraffic(e.domain, e.options.userTraffic, unused)], 5)
       [] s = 5 -> await(e, "analyzeBrandability")
       [] s = 6 -> await(e, "analyzeTrademarkRisk")
       [] OTHER -> finished(e)

\* whether outcome kind `kind` can happen with the credential accepted or not
possible(kind, hasKey) == (kind = "no_key") <=> ~hasKey

\* whether the xAI service can answer a call with outcome kind `kind`: a
\* placeholder that the client accepts is refused by the service
possibleXai(kind, apiKey) ==
  /\ possible(kind, xaiKeyAccepted(apiKey))
  /\ apiKey = "placeholder" => kind # "ok"

\* e with the request of `adapter` to `service` recorded, when one was sent
sent(e, adapter, service, kind) ==
  IF kind = "no_key" THEN e
  ELSE [e EXCEPT !.network = @ \cup { [adapter |-> adapter, service |-> service] }]

StartEvaluation(domain, options, weights, keys) ==
  /\ ev.pc = "Idle"
  /\ ev' = enter([NoEvaluation EXCEPT !.domain = domain, !.options = options,
                                      !.weights = weights, !.keys = keys], 1)
  /\ UNCHANGED <<now, ticks, rateLimitMap, rlCalls, appraisals, nextId, req, bg, fn>>

WhoisReturns(o) ==
  /\ ev.pc = "getWhoisData"
  /\ possible(o.kind, whoisKeyAccepted(ev.keys.whois))
  /\ o.kind = "ok" \/ possibleXai(o.ai.kind, ev.keys.xai)
  /\ ev' = enter([sent(sent(ev, "getWhoisData", "ip2whois", o.kind),
                       "getWhoisData", "xai", IF o.kind = "ok" THEN "no_key" ELSE o.ai.kind)
                    EXCEPT !.whoisData = getWhoisData(ev.domain, o)], 2)
  /\ UNCHANGED <<now, ticks, rateLimitMap, rlCalls, appraisals, nextId, req, bg, fn>>

ComparablesReturn(db) ==
  /\ ev.pc = "findDatabaseComparables"
  /\ ev' = enter([ev EXCEPT !.comparables = loadComparables(ev.domain, ev.options, db)], 3)
  /\ UNCHANGED <<now, ticks, rateLimitMap, rlCalls, appraisals, nextId, req, bg, fn>>

AgeReturns(o) ==
  /\ ev.pc = "fetchDomainAge"
  /\ possible(o.kind, whoisKeyAccepted(ev.keys.whois))
  /\ ev' = enter([sent(ev, "fetchDomainAge", "ip2whois", o.kind) EXCEPT !.ageResult =
                    scoreDomainAge(ev.domain, OrElse(ev.whoisData.ageInYears, ev.options.domainAge),
                                   Truthy(ev.options.skipWhois), o)], 4)
  /\ UNCHANGED <<now, ticks, rateLimitMap, rlCalls, appraisals, nextId, req, bg, fn>>

\* the pending timed call ends with outcome o
settled(e, o) ==
  CASE e.pc = "estimateTraffic" ->
         enter([e EXCEPT !.trafficResult = scoreDomainTraffic(e.domain, e.options.userTraffic, o),
                         !.trafficKind = o.kind], 5)
    [] e.pc = "analyzeBrandability" ->
         enter([e EXCEPT !.brandabilityResult = analyzeBrandability(e.domain, o)], 6)
    [] e.pc = "analyzeTrademarkRisk" ->
         enter([e EXCEPT !.legalRisk = assessLegalRisk(e.domain, o),
                         !.aiConflict = (o.kind = "ok" /\ o.hasConflict)], 7)

TrafficReturns(o) ==
  /\ ev.pc = "estimateTraffic"
  /\ o.kind # "timeout"
  /\ possibleXai(o.kind, ev.keys.xai)
  /\ ev' = settled(sent(ev, ev.pc, "xai", o.kind), o)
  /\ UNCHANGED <<now, ticks, rateLimitMap, rlCalls, appraisals, nextId, req, bg, fn>>

BrandabilityReturns(o) ==
  /\ ev.pc = "analyzeBrandability"
  /\ o.kind # "timeout"
  /\ possibleXai(o.kind, ev.keys.xai)
  /\ ev' = settled(sent(ev, ev.pc, "xai", o.kind), o)
  /\ UNCHANGED <<now, ticks, rateLimitMap, rlCalls, appraisals, nextId, req, bg, fn>>

TrademarkReturns(o) ==
  /\ ev.pc = "analyzeTrademarkRisk"
  /\ o.kind # "timeout"
  /\ possibleXai(o.kind, ev.keys.xai)
  /\ ev' = settled(sent(ev, ev.pc, "xai", o.kind), o)
  /\ UNCHANGED <<now, ticks, rateLimitMap, rlCalls, appraisals, nextId, req, bg, fn>>

\* the setTimeout of the pending call fires first
TimerFires ==
  /\ ev.timer
  /\ ev.pc \in networkCalls(ev.keys)
  /\ ev' = settled(sent(ev, ev.pc, "xai", "timeout"),
                   [kind |-> "timeout", score |-> Undefined, monthlyTraffic |-> Undefined,
                    hasConflict |-> FALSE, severity |-> Undefined])
  /\ UNCHANGED <<now, ticks, rateLimitMap, rlCalls, appraisals, nextId, req, bg, fn>>

-----------------------------------------------------------------------------
(* rate-limiter called on its own *)

MaxCalls == 5
MaxRateTicks == 3

\* checkRateLimit(ip) is called; the call and what it returned are noted
RateCall(ip, cleanup) ==
  /\ Len(rlCalls) < MaxCalls
  /\ LET rateLimit == checkRateLimit(rateLimitMap, ip, now, cleanup)
     IN /\ rateLimitMap' = rateLimit.map
        /\ rlCalls' = Append(rlCalls, [ ip |-> ip, at |-> now, allowed |-> rateLimit.allowed,
                                        remaining |-> rateLimit.remaining,
                                        resetTime |-> rateLimit.resetTime,
                                        count |-> rateLimit.map[ip].count ])
  /\ UNCHANGED <<now, ticks, appraisals, nextId, req, bg, ev, fn>>

RateTick(ms) ==
  /\ ticks < MaxRateTicks
  /\ now' = now + ms
  /\ ticks' = ticks + 1
  /\ UNCHANGED <<rateLimitMap, rlCalls, appraisals, nextId, req, bg, ev, fn>>

-----------------------------------------------------------------------------
(* functions called on their own *)

\* no call made yet
NoCall == [op |-> "none"]

\* domain_sales for the matcher: in and out of the price ranges, one sold before 2014
FnSales ==
  << [domain |-> "shop.net", price |-> 3000, date |-> 20220101],
     [domain |-> "shopping.com", price |-> 9000, date |-> 20210101],
     [domain |-> "webshop.io", price |-> 4000, date |-> 20200101],
     [domain |-> "ab.net", price |-> 5000, date |-> 20230101],
     [domain |-> "zz-9.org", price |-> 700, date |-> 20190101],
     [domain |-> "old.com", price |-> 9000, date |-> 20100101] >>

\* the tables that hold some of these rows
FnTables ==
  { SelectSeq(FnSales, LAMBDA row : row.domain \in held) :
      held \in SUBSET { FnSales[i].domain : i \in 1..Len(FnSales) } }

FnTargets == { "shopper.com", "tech-web.io", "ab.com" }

FnLimits == { 1, 2, 5 }

FnDbOutcomes ==
  { [kind |-> "rows", retry |-> "rows", rows |-> rows] : rows \in FnTables }
    \cup { [kind |-> "error", retry |-> "rows", rows |-> FnSales] }

\* findDatabaseComparables(targetDomain, limit) is called
CallFindDatabaseComparables(targetDomain, limit, db) ==
  /\ fn = NoCall
  /\ fn' = [ op |-> "findDatabaseComparables", targetDomain |-> targetDomain, limit |-> limit,
             db |-> db, result |-> findDatabaseComparables(targetDomain, limit, db) ]
  /\ UNCHANGED <<now, ticks, rateLimitMap, rlCalls, appraisals, nextId, req, bg, ev>>

\* the four sub-scores calculateSimilarity weighs; keyword is the fraction num / den
similarityParts(target, candidate) ==
  [ length |-> lengthSimilarity(target, candidate),
    tld |-> tldSimilarity(target, candidate),
    keyword |-> calculateKeywordSimilarity(target.domainName, candidate.domainName),
    structure |-> calculateStructureSimilarity(target, candidate) ]

FnPairDomains ==
  { "shop-one.com", "shopper.net", "ab.com", "web2go.io", "tech-web.co.uk", "go.io",
    "shop.net" }

\* calculateSimilarity is called for a pair of domains, each way round
CallCalculateSimilarity(a, b) ==
  /\ fn = NoCall
  /\ fn' = [ op |-> "calculateSimilarity", a |-> a, b |-> b,
             ab |-> similarityParts(extractDomainInfo(a), extractDomainInfo(b)),
             ba |-> similarityParts(extractDomainInfo(b), extractDomainInfo(a)) ]
  /\ UNCHANGED <<now, ticks, rateLimitMap, rlCalls, appraisals, nextId, req, bg, ev>>

\* names x for x.com, some with dots and with labels that look like a
\* second-level TLD, and a few domains outside .com
FnTldDomains ==
  { "x.com", "Shop.COM", "a.b.com", "co.uk.com", "com.au.com", "co.com", "com.com",
    "a-1.net.com", " x.com ", "x.co.uk", "x.io", "x.uk", "x.com.au" }

FnCountries == { Undefined, Str("uk"), Str("us"), Str("com"), Str("") }

\* scoreTLD(domain, targetCountry) is called
CallScoreTLD(domain, targetCountry) ==
  /\ fn = NoCall
  /\ fn' = [ op |-> "scoreTLD", domain |-> domain, targetCountry |-> targetCountry,
             result |-> scoreTLD(domain, targetCountry) ]
  /\ UNCHANGED <<now, ticks, rateLimitMap, rlCalls, appraisals, nextId, req, bg, ev>>

\* names of 1 to 16 characters, with and without hyphens, digits and underscores
FnLengthDomains ==
  { "a.com", "ab.com", "abcd.com", "abcde.com", "abcdefgh.com", "abcdefghi.com",
    "abcdefghijkl.com", "abcdefghijklmnop.com", "a1.com", "abc1.com", "abcd1.com",
    "a-b.com", "abc-def.com", "abcde-fghi.com", "a-b-c-def.com", "a-b-c-d-efghijk.com",
    "ab_cd.com", "a_b_c_d.com", "a1-b.com", "ab1-cdefg.co.uk" }

\* scoreLengthAndSimplicity is called for two domains
CallScoreLengthAndSimplicity(a, b) ==
  /\ fn = NoCall
  /\ fn' = [ op |-> "scoreLengthAndSimplicity", a |-> a, b |-> b,
             scoreA |-> scoreLengthAndSimplicity(a), scoreB |-> scoreLengthAndSimplicity(b) ]
  /\ UNCHANGED <<now, ticks, rateLimitMap, rlCalls, appraisals, nextId, req, bg, ev>>

\* names with and without keywords, under suffixes findKeywordValue strips and
\* under suffixes it does not
FnKeywordDomains ==
  { "zebra.com", "zebra.io", "zebra.tech", "zebra.shop", "zebra.co.uk", "bank.com",
    "bank.de", "banks.net", "loan.org", "loan.uk", "cryptobankpayshop.com" }

\* scoreKeywords is called for two domains
CallScoreKeywords(a, b) ==
  /\ fn = NoCall
  /\ fn' = [ op |-> "scoreKeywords", a |-> a, b |-> b,
             resultA |-> scoreKeywords(a), resultB |-> scoreKeywords(b) ]
  /\ UNCHANGED <<now, ticks, rateLimitMap, rlCalls, appraisals, nextId, req, bg, ev>>

-----------------------------------------------------------------------------
(* Specifications *)

\* an appraisal stored by the route's earlier revision: no options_hash, no whois_data
LegacyRow ==
  [ insertedRow(1, evaluateDomain("ab.com", NoOptions, DEFAULT_WEIGHTS, RouteOutcomes["error"]).appraisal,
                NullHash, 0)
    EXCEPT !.whois_data = Null ]

\* an appraisal of the same domain stored at time 0 for other options
OptionsRow ==
  insertedRow(3, evaluateDomain("ab.com", [NoOptions EXCEPT !.useComps = Bool(FALSE)],
                                DEFAULT_WEIGHTS, RouteOutcomes["error"]).appraisal,
              md5(JSONstringify([NoOptions EXCEPT !.useComps = Bool(FALSE)])), 0)

\* an appraisal of another domain, stored at time 0 with the default options
OtherRow ==
  insertedRow(2, evaluateDomain("zebra.io", NoOptions, DEFAULT_WEIGHTS, RouteOutcomes["error"]).appraisal,
              md5(JSONstringify(NoOptions)), 0)

\* the limiter after client c2 has used up its window at time 0
ExhaustedMap ==
  LET first == checkRateLimit(<< >>, "c2", 0, FALSE).map
      second == checkRateLimit(first, "c2", 0, FALSE).map
  IN checkRateLimit(second, "c2", 0, FALSE).map

InitEmpty ==
  /\ now = 0
  /\ ticks = 0
  /\ rateLimitMap = << >>
  /\ rlCalls = << >>
  /\ appraisals = {}
  /\ nextId = 1
  /\ req = [r \in Requests |-> NoRequest]
  /\ bg = {}
  /\ ev = NoEvaluation
  /\ fn = NoCall

\* the route starts a moment after the stored appraisals were written and
\* client c2 used up its window
Init ==
  /\ now = 1
  /\ ticks = 0
  /\ rateLimitMap = ExhaustedMap
  /\ rlCalls = << >>
  /\ appraisals = { LegacyRow, OtherRow, OptionsRow }
  /\ nextId = 4
  /\ req = [r \in Requests |-> NoRequest]
  /\ bg = {}
  /\ ev = NoEvaluation
  /\ fn = NoCall

BackgroundWhoisOutcomes ==
  { o \in WhoisOutcomes : (o.kind = "ok" /\ ~o.isAvailable) \/ (o.kind = "error" /\ o.ai.kind = "error") }

Next ==
  \/ \E r \in Requests, ip \in Ips, cleanup \in BOOLEAN : Post(r, ip, cleanup)
  \/ \E r \in Requests, domain \in BodyDomains, options \in BodyOptions : Validate(r, domain, options)
  \/ \E r \in Requests, body \in UnreadableBodies : BodyUnreadable(r, body)
  \/ \E r \in Requests, storeUp \in BOOLEAN : Lookup(r, storeUp)
  \/ \E r \in Requests, k \in DOMAIN RouteOutcomes : Evaluate(r, k)
  \/ \E r \in Requests, storeUp \in BOOLEAN : Persist(r, storeUp)
  \/ \E task \in bg, o \in BackgroundWhoisOutcomes, storeUp \in BOOLEAN :
       BackgroundUpdate(task, o, storeUp)
  \/ \E row \in appraisals : DeleteAppraisal(row)
  \/ Tick

Spec == Init /\ [][Next]_vars

NextEval ==
  \/ \E domain \in EvalDomains, options \in EvalOptions, weights \in EvalWeights, keys \in EvalKeys :
       StartEvaluation(domain, options, weights, keys)
  \/ \E o \in WhoisOutcomes : WhoisReturns(o)
  \/ \E db \in DbOutcomes : ComparablesReturn(db)
  \/ \E o \in AgeOutcomes : AgeReturns(o)
  \/ \E o \in TrafficOutcomes : TrafficReturns(o)
  \/ \E o \in BrandabilityOutcomes : BrandabilityReturns(o)
  \/ \E o \in TrademarkOutcomes : TrademarkReturns(o)
  \/ TimerFires

SpecEval == InitEmpty /\ [][NextEval]_vars

NextRate ==
  \/ \E ip \in Ips, cleanup \in BOOLEAN : RateCall(ip, cleanup)
  \/ \E ms \in { 1, WINDOW_MS } : RateTick(ms)

SpecRate == InitEmpty /\ [][NextRate]_vars

NextFn ==
  \/ \E targetDomain \in FnTargets, limit \in FnLimits, db \in FnDbOutcomes :
       CallFindDatabaseComparables(targetDomain, limit, db)
  \/ \E a \in FnPairDomains, b \in FnPairDomains : CallCalculateSimilarity(a, b)
  \/ \E domain \in FnTldDomains, targetCountry \in FnCountries : CallScoreTLD(domain, targetCountry)
  \/ \E a \in FnLengthDomains, b \in FnLengthDomains : CallScoreLengthAndSimplicity(a, b)
  \/ \E a \in FnKeywordDomains, b \in FnKeywordDomains : CallScoreKeywords(a, b)

SpecFn == InitEmpty /\ [][NextFn]_vars

-----------------------------------------------------------------------------
(* Properties *)

\* C1: every appraisal that evaluateDomain produces with the legal flag severe
\* has finalScore 0, whatever the factor scores, weights and multipliers are
C1_SevereScoresZero ==
  (ev.pc = "Done" /\ ev.appraisal.legalFlag = Str("severe"))
    => ev.appraisal.finalScore = Num(0)

\* the call before the i-th by the same client (0 if there is none)
previousCall(calls, i) ==
  LET earlier == { j \in 1..(i - 1) : calls[j].ip = calls[i].ip }
  IN IF earlier = {} THEN 0 ELSE CHOOSE j \in earlier : \A k \in earlier : k <= j

\* the call that opened the window the i-th call falls into: the client's first
\* call, or its first call after the reset time of the window before has passed
RECURSIVE windowOpener(_, _)
windowOpener(calls, i) ==
  IF previousCall(calls, i) = 0 THEN i
  ELSE LET opener == windowOpener(calls, previousCall(calls, i))
       IN IF calls[i].at > calls[opener].at + WINDOW_MS THEN i ELSE opener

\* the rank of the i-th call among the calls of its window
rankInWindow(calls, i) ==
  Cardinality({ j \in 1..i : /\ calls[j].ip = calls[i].ip
                             /\ windowOpener(calls, j) = windowOpener(calls, i) })

\* C2: of the calls one client makes, the first RATE_LIMIT inside a window are
\* allowed, every further call inside it is rejected with remaining 0, and the
\* first call after the reset time has passed is allowed and opens a window with
\* count 1
C2_WindowCeiling ==
  \A i \in 1..Len(rlCalls) :
    /\ rlCalls[i].allowed <=> rankInWindow(rlCalls, i) <= RATE_LIMIT
    /\ ~rlCalls[i].allowed => rlCalls[i].remaining = 0
    /\ windowOpener(rlCalls, i) = i =>
         /\ rlCalls[i].allowed
         /\ rlCalls[i].count = 1
         /\ rlCalls[i].resetTime = rlCalls[i].at + WINDOW_MS

\* a client was rejected in a full window and let in again once it had passed
C2_Witness ==
  \E i, j \in 1..Len(rlCalls) :
    /\ i < j
    /\ rlCalls[i].ip = rlCalls[j].ip
    /\ ~rlCalls[i].allowed
    /\ rlCalls[i].remaining = 0
    /\ rlCalls[j].allowed
    /\ rlCalls[j].count = 1
    /\ windowOpener(rlCalls, j) = j

\* the request went to the valuation engine
evaluated(r) == req[r].called # {}

\* the request passed the rate limit and the validation
validated(r) == req[r].body = "object" /\ req[r].status # 400

\* both requests carry the same normalized domain and the same options
sameFingerprint(r1, r2) ==
  /\ validated(r1)
  /\ validated(r2)
  /\ cleanDomainOf(req[r1]) = cleanDomainOf(req[r2])
  /\ optionsHashOf(req[r1]) = optionsHashOf(req[r2])

\* C3: of the requests with one fingerprint whose cache queries were answered
\* within one freshness window, at most one runs the valuation engine and at
\* most one writes an appraisal record
C3_EvaluatedOnce ==
  \A r1, r2 \in Requests :
    ( /\ r1 < r2
      /\ sameFingerprint(r1, r2)
      /\ req[r1].lookup = "miss"
      /\ req[r2].lookup = "miss"
      /\ req[r2].lookupAt - req[r1].lookupAt < cacheWindow
      /\ req[r1].lookupAt - req[r2].lookupAt < cacheWindow )
    => /\ ~(evaluated(r1) /\ evaluated(r2))
       /\ ~(req[r1].rowId # 0 /\ req[r2].rowId # 0)

\* the stored appraisal of request r, if it is still stored and fresh at time t
storedFresh(r, t) ==
  { row \in appraisals : row.id = req[r].rowId /\ row.created_at > t - cacheWindow }

C5_ServedRowMatches ==
  \A r \in Requests :
    req[r].lookup = "hit" =>
      /\ req[r].served.domain = cleanDomainOf(req[r])
      /\ req[r].response.domain = cleanDomainOf(req[r])
      /\ \/ req[r].served.options_hash = optionsHashOf(req[r])
         \/ req[r].served.options_hash = NullHash
      /\ req[r].lookupAt - req[r].served.created_at < cacheWindow

\* a request was served a stored appraisal with its own options hash while the
\* store held appraisals of another domain, of other options and of an older day
C5_Witness ==
  \E r \in Requests :
    /\ req[r].lookup = "hit"
    /\ req[r].served.options_hash = optionsHashOf(req[r])
    /\ \E row \in appraisals : row.domain # cleanDomainOf(req[r])
    /\ \E row \in appraisals :
         /\ row.domain = cleanDomainOf(req[r])
         /\ row.options_hash \notin { optionsHashOf(req[r]), NullHash }
    /\ \E row \in appraisals :
         /\ row.domain = cleanDomainOf(req[r])
         /\ row.options_hash = NullHash
         /\ req[r].lookupAt - row.created_at >= cacheWindow

\* C6: a request with a well-formed domain from a client under its limit is
\* answered with an appraisal whatever the adapters do: the only failure
\* responses are validation errors (400) and rate-limit rejections (429)
C6_OnlyValidationAndRateLimitFail ==
  \A r \in Requests :
    (req[r].pc = "Failed" /\ req[r].body \notin UnreadableBodies) => req[r].status \in { 400, 429 }

\* C7: with no userTraffic given and the traffic estimation unreachable or timed
\* out, the evaluation completes and its traffic factor is the fallback: data
\* source 'fallback', score 20
C7_TrafficFallback ==
  ( /\ ev.pc = "Done"
    /\ ev.options.userTraffic = Undefined
    /\ ev.trafficKind \in { "error", "timeout" } )
  => /\ ev.trafficResult.dataSource = "fallback"
     /\ ev.trafficResult.score = 20

\* C8: every call evaluateDomain makes to an external adapter (brandability,
\* traffic, trademark, WHOIS, age) that goes to the network is raced against a
\* timer, so that an adapter that never answers cannot hold the evaluation
C8_AdapterCallsTimed ==
  ev.pc \in (networkCalls(ev.keys) \ { "findDatabaseComparables" }) => ev.timer

\* C9: a request whose cache query or insert failed is still answered with the
\* freshly computed appraisal, as a success
C9_StorageFailureStillAnswers ==
  \A r \in Requests :
    req[r].lookup = "failed" =>
      /\ req[r].pc \in { "Scoring", "Persisting", "Done" }
      /\ req[r].pc = "Done" => (req[r].status = 200 /\ evaluated(r))

\* the ids of the stored appraisals
storedIds(rows) == { row.id : row \in rows }

\* C10: a step of the background WHOIS update leaves every request and its
\* response as they were, whatever the WHOIS lookup and the store do, and when
\* no appraisal has the id it updates, it leaves the table as it was
C10_BackgroundUpdateSilent ==
  [][ \A task \in bg :
        (task.pc = "started" /\ task \notin bg')
        => /\ req' = req
           /\ storedIds(appraisals') = storedIds(appraisals)
           /\ task.id \notin storedIds(appraisals) => appraisals' = appraisals ]_vars

\* the update of an appraisal deleted in the meantime went through, and the
\* request that stored the appraisal keeps its success
C10_Witness ==
  \E task \in bg : \E r \in Requests :
    /\ task.pc = "updated"
    /\ task.id \notin storedIds(appraisals)
    /\ req[r].rowId = task.id
    /\ req[r].pc = "Done"
    /\ req[r].status = 200

\* the permissive hostname grammar: two labels or more, each a non-empty string
\* of alphanumerics and hyphens, the last of two characters or more
matchesHostnameGrammar(domain) ==
  LET labels == split(domain, ".")
  IN /\ Len(labels) >= 2
     /\ \A k \in 1..Len(labels) :
          /\ Len(labels[k]) >= 1
          /\ \A i \in 1..Len(labels[k]) :
               Char(labels[k], i) \in LowerLetters \cup UpperLetters \cup Digits \cup { "-" }
     /\ Len(labels[Len(labels)]) >= 2

\* the body of the request was read and its domain is missing, empty, not a
\* string or, once normalized, outside the hostname grammar
malformedDomain(r) ==
  \/ req[r].body \in UnreadableBodies
  \/ /\ req[r].body = "object"
     /\ \/ req[r].domain \in { Undefined, Null, Str("") }
        \/ req[r].domain.t # "str"
        \/ ~matchesHostnameGrammar(trim(toLowerCase(req[r].domain.s)))

\* C11: a request whose domain is missing, empty, not a string or outside the
\* hostname grammar is answered 400 and reaches neither the cache lookup, nor
\* the scoring, nor the insert, nor the background WHOIS update
C11_MalformedDomainRejected ==
  \A r \in Requests :
    malformedDomain(r) =>
      /\ req[r].pc = "Failed"
      /\ req[r].status = 400
      /\ req[r].lookup = "none"
      /\ req[r].called = {}
      /\ req[r].rowId = 0

\* the steps a request may take from one state to the next: Received and
\* RateChecked (Post), CacheChecked (Lookup), then CacheHit and Done, or Scoring,
\* Persisting and Done; Failed ends a request that is turned away or throws
requestSteps ==
  { <<"Idle", "RateChecked">>, <<"Idle", "Failed">>,
    <<"RateChecked", "CacheLookup">>, <<"RateChecked", "Failed">>,
    <<"CacheLookup", "Done">>, <<"CacheLookup", "Scoring">>,
    <<"Scoring", "Persisting">>, <<"Scoring", "Failed">>,
    <<"Persisting", "Done">> }

\* C12: every request moves through its states in the order Received,
\* RateChecked, CacheChecked, then CacheHit and Done or Scoring, Persisting and
\* Done; a rate-limited request does no cache lookup, scoring or insert, and a
\* cache hit is answered at once with no scoring and no insert
C12_StateOrder ==
  [][ \A r \in Requests :
        /\ req'[r].pc # req[r].pc => <<req[r].pc, req'[r].pc>> \in requestSteps
        /\ (req[r].pc = "CacheLookup" /\ req'[r].pc = "Done") <=>
             (req[r].lookup = "none" /\ req'[r].lookup = "hit")
        /\ req'[r].status = 429 =>
             /\ req'[r].pc = "Failed"
             /\ req'[r].lookup = "none"
             /\ req'[r].called = {}
             /\ req'[r].rowId = 0
        /\ req'[r].lookup = "hit" =>
             /\ req'[r].pc = "Done"
             /\ req'[r].called = {}
             /\ req'[r].rowId = 0 ]_vars

\* both ways to Done were taken: one request was scored and stored, another was
\* answered from the cache
C12_Witness ==
  \E r1, r2 \in Requests :
    /\ req[r1].pc = "Done" /\ req[r1].lookup = "miss" /\ req[r1].called # {} /\ req[r1].rowId # 0
    /\ req[r2].pc = "Done" /\ req[r2].lookup = "hit"

\* the nine weighted factors of a breakdown
weightedFactors ==
  { "length", "keywords", "tld", "brandability", "industry", "comps", "age", "traffic",
    "liquidity" }

\* C13: whatever the domain, the options and the adapters' outcomes, a finished
\* evaluation has finalScore >= 0 and each of its nine weighted factor scores
\* is a number between 0 and 100
C13_ScoresInRange ==
  ev.pc = "Done" =>
    /\ GreaterEq(ev.appraisal.finalScore, 0)
    /\ \A i \in 1..Len(ev.appraisal.breakdown) :
         ev.appraisal.breakdown[i].factor \in weightedFactors =>
           /\ IsNum(ev.appraisal.breakdown[i].score)
           /\ ev.appraisal.breakdown[i].score.n >= 0
           /\ ev.appraisal.breakdown[i].score.n <= 100

\* the sum of the weights of the weighted factors of a breakdown, in hundredths
RECURSIVE sumWeights(_)
sumWeights(breakdown) ==
  IF Len(breakdown) = 0 THEN 0
  ELSE (IF Head(breakdown).factor \in weightedFactors THEN Head(breakdown).weight ELSE 0)
         + sumWeights(Tail(breakdown))

\* C14: the weights evaluateDomain applies to the nine weighted factors, the
\* default ones or those it substitutes for a premium short domain, are not
\* negative and sum to 1 at most, and the legal and availability entries carry
\* weight 0 and contribution 0
C14_WeightsSumToOne ==
  (ev.pc = "Done" /\ ev.weights = DEFAULT_WEIGHTS) =>
    /\ \A i \in 1..Len(ev.appraisal.breakdown) :
         /\ ev.appraisal.breakdown[i].weight >= 0
         /\ ev.appraisal.breakdown[i].factor \notin weightedFactors =>
              /\ ev.appraisal.breakdown[i].weight = 0
              /\ ev.appraisal.breakdown[i].contribution = Num(0)
    /\ sumWeights(ev.appraisal.breakdown) <= 100

\* C15: the evaluation of google.com has legal flag severe, legal multiplier 0
\* and finalScore 0, whatever the trademark adapter answers and whatever the
\* other factors score
C15_GoogleSevere ==
  (ev.pc = "Done" /\ ev.domain = "google.com") =>
    /\ ev.appraisal.legalFlag = Str("severe")
    /\ ev.legalRisk.multiplier = 0
    /\ ev.appraisal.finalScore = Num(0)

\* C16: when the trademark adapter fails or reports no conflict, a domain whose
\* name, as extractDomainName splits it from its single-level or multi-level
\* TLD, is a brand of the static list has legal flag severe and multiplier 0
C16_ExactBrandSevere ==
  ( /\ ev.pc = "Done"
    /\ ~ev.aiConflict
    /\ extractDomainName(ev.domain) \in ENHANCED_LEGAL_BRANDS )
  => /\ ev.appraisal.legalFlag = Str("severe")
     /\ ev.legalRisk.multiplier = 0

\* the weighted sum of an evaluation after the legal and availability
\* multipliers and before the premium multiplier, in units of 1 / ScoreScale
unboostedScore(e) ==
  sumContributions(e.appraisal.breakdown).n * e.legalRisk.multiplier
    * availabilityMultiplier(e.options, e.whoisData) * 100

\* C17: for ab.com, with the default weights and no options, the premium
\* multiplier applied to the weighted sum is greater than 1: finalScore is above
\* the weighted sum times the legal and availability multipliers
C17_PremiumBoost ==
  ( /\ ev.pc = "Done"
    /\ ev.domain = "ab.com"
    /\ ev.options = NoOptions
    /\ ev.weights = DEFAULT_WEIGHTS
    /\ IsNum(ev.appraisal.finalScore)
    /\ ev.legalRisk.multiplier > 0 )
  => ev.appraisal.finalScore.n > unboostedScore(ev)

\* the candidates of a findDatabaseComparables call: what its query returns
candidatesOf(call) ==
  IF call.db.kind = "rows" /\ extractDomainInfo(call.targetDomain).ok
  THEN queryCandidates(call.db.rows, estimatePriceRange(extractDomainInfo(call.targetDomain)),
                       call.limit)
  ELSE << >>

\* the similarity of a candidate row to the target of the call
candidateSimilarity(call, row) ==
  IF extractDomainInfo(row.domain).ok
  THEN roundedSimilarity(extractDomainInfo(call.targetDomain), extractDomainInfo(row.domain))
  ELSE 0 - 1

\* the comparable was made from the row
comparableOf(c, row) ==
  c.domain = row.domain /\ c.soldPrice = row.price /\ c.soldDate = row.date

\* C18: findDatabaseComparables returns limit comparables at most, each a
\* candidate with its similarity, which is 40 or more, in non-increasing order of
\* similarity, and no candidate left out is more similar than one returned
C18_TopComparables ==
  fn.op = "findDatabaseComparables" =>
    /\ Len(fn.result) <= fn.limit
    /\ \A i \in 1..Len(fn.result) :
         /\ fn.result[i].similarity >= 40
         /\ \E k \in 1..Len(candidatesOf(fn)) :
              /\ comparableOf(fn.result[i], candidatesOf(fn)[k])
              /\ fn.result[i].similarity = candidateSimilarity(fn, candidatesOf(fn)[k])
    /\ \A i, j \in 1..Len(fn.result) :
         i < j => fn.result[i].similarity >= fn.result[j].similarity
    /\ \A k \in 1..Len(candidatesOf(fn)) :
         (\A i \in 1..Len(fn.result) : ~comparableOf(fn.result[i], candidatesOf(fn)[k]))
         => \A i \in 1..Len(fn.result) :
              candidateSimilarity(fn, candidatesOf(fn)[k]) <= fn.result[i].similarity

\* a call came back with limit comparables of differing similarity, leaving out
\* a candidate of 40 or more for the limit and another for the floor, among
\* candidates that the query had not delivered in order of similarity
C18_Witness ==
  /\ fn.op = "findDatabaseComparables"
  /\ Len(fn.result) = fn.limit
  /\ Len(fn.result) >= 2
  /\ fn.result[1].similarity > fn.result[Len(fn.result)].similarity
  /\ \E k \in 1..Len(candidatesOf(fn)) :
       /\ candidateSimilarity(fn, candidatesOf(fn)[k]) >= 40
       /\ \A i \in 1..Len(fn.result) : ~comparableOf(fn.result[i], candidatesOf(fn)[k])
  /\ \E k \in 1..Len(candidatesOf(fn)) : candidateSimilarity(fn, candidatesOf(fn)[k]) < 40
  /\ \E k \in 1..(Len(candidatesOf(fn)) - 1) :
       candidateSimilarity(fn, candidatesOf(fn)[k])
         < candidateSimilarity(fn, candidatesOf(fn)[k + 1])

\* C19: the length, TLD and structure sub-scores of the similarity of a to b,
\* and the keyword sub-score, equal those of the similarity of b to a
C19_SubScoresSymmetric ==
  fn.op = "calculateSimilarity" =>
    /\ fn.ab.length = fn.ba.length
    /\ fn.ab.tld = fn.ba.tld
    /\ fn.ab.structure = fn.ba.structure
    /\ fn.ab.keyword.num * fn.ba.keyword.den = fn.ba.keyword.num * fn.ab.keyword.den

\* a pair that differs in length, in TLD with one of them .com, and in hyphens,
\* and shares a word
C19_Witness ==
  /\ fn.op = "calculateSimilarity"
  /\ fn.a # fn.b
  /\ fn.ab.length < 100
  /\ fn.ab.tld = 60
  /\ fn.ab.structure < 100
  /\ fn.ab.keyword.num > 20 * fn.ab.keyword.den

\* C20: scoreTLD is 100 for every domain x.com, whatever the name x (dots and
\* labels of second-level TLDs included) and whatever the target country
C20_ComScores100 ==
  (fn.op = "scoreTLD" /\ endsWith(trim(toLowerCase(fn.domain)), ".com")) => fn.result = 100

\* scoreTLD was called for a .com domain whose name ends in the labels of a
\* multi-level TLD, with a target country
C20_Witness ==
  /\ fn.op = "scoreTLD"
  /\ fn.domain = "co.uk.com"
  /\ fn.targetCountry = Str("uk")
  /\ fn.result = 100

\* whether the name of the domain has a hyphen, a digit, an underscore
separatorUsage(domain) ==
  [ hyphen |-> includes(extractDomainName(domain), "-"),
    digit |-> hasDigit(extractDomainName(domain)),
    underscore |-> includes(extractDomainName(domain), "_") ]

\* whether '-' and '_' split the name of the domain into more than 3 segments
manySegments(domain) == 1 + countChars(extractDomainName(domain), {"-", "_"}) > 3

\* C21 as claimed: of two domains whose names use hyphens, digits and
\* underscores alike, the one with the shorter name never scores lower, and
\* ab.com scores above abcdefghijkl.com
C21_ShorterNeverLower ==
  fn.op = "scoreLengthAndSimplicity" =>
    /\ ( /\ separatorUsage(fn.a) = separatorUsage(fn.b)
         /\ Len(extractDomainName(fn.a)) <= Len(extractDomainName(fn.b)) )
       => fn.scoreA >= fn.scoreB
    /\ (fn.a = "ab.com" /\ fn.b = "abcdefghijkl.com") => fn.scoreA > fn.scoreB

\* C21 amended: of two domains whose names use hyphens, digits and underscores
\* alike and are both, or both not, split into more than 3 segments, the one
\* with the shorter name never scores lower, and ab.com scores above
\* abcdefghijkl.com
C21_ShorterNeverLowerSameSegments ==
  fn.op = "scoreLengthAndSimplicity" =>
    /\ ( /\ separatorUsage(fn.a) = separatorUsage(fn.b)
         /\ manySegments(fn.a) = manySegments(fn.b)
         /\ Len(extractDomainName(fn.a)) <= Len(extractDomainName(fn.b)) )
       => fn.scoreA >= fn.scoreB
    /\ (fn.a = "ab.com" /\ fn.b = "abcdefghijkl.com") => fn.scoreA > fn.scoreB

\* two hyphenated names of many segments were scored, the shorter one higher
C21_Witness ==
  /\ fn.op = "scoreLengthAndSimplicity"
  /\ separatorUsage(fn.a) = separatorUsage(fn.b)
  /\ separatorUsage(fn.a).hyphen
  /\ manySegments(fn.a) /\ manySegments(fn.b)
  /\ Len(extractDomainName(fn.a)) < Len(extractDomainName(fn.b))
  /\ fn.scoreA > fn.scoreB

\* C22: when the caller supplies domainAge, the age factor score is the tier
\* value of that age, whatever the WHOIS adapter answered
C22_CallerAgeScored ==
  (ev.ageResult # NoResult /\ ev.options.domainAge # Undefined)
    => ev.ageResult.score = calculateAgeScore(ev.options.domainAge)

\* C23: two domains with the same name before the TLD and different TLDs get
\* the same keyword score, industry and matched keywords
C23_KeywordsFromNameOnly ==
  ( /\ fn.op = "scoreKeywords"
    /\ extractDomainName(fn.a) = extractDomainName(fn.b)
    /\ extractTLD(fn.a) # extractTLD(fn.b) )
    => fn.resultA = fn.resultB

\* the credential the adapter is configured with
credentialOf(adapter, keys) == IF adapter = "getWhoisData" THEN keys.whois ELSE keys.xai

\* C24: the WHOIS, brandability, traffic and trademark adapters send a request
\* to the network only when their credential is set: with a missing or a
\* placeholder credential they go to their fallback without a network call
C24_NoCredentialNoNetwork ==
  \A call \in ev.network :
    call.adapter \in (TimedCalls \cup { "getWhoisData" })
      => credentialOf(call.adapter, ev.keys) = "set"

\* C25: a step of the background WHOIS update changes nothing of the table but
\* the WHOIS field of the appraisal with the identifier it was given: every
\* other field of that appraisal and every other appraisal stay as they were,
\* and no appraisal is added or removed
C25_OnlyWhoisFieldPatched ==
  [][ \A task \in bg :
        (task.pc = "started" /\ task \notin bg')
        => /\ \A row \in appraisals :
                IF row.id = task.id
                THEN \E patched \in appraisals' : [patched EXCEPT !.whois_data = row.whois_data] = row
                ELSE row \in appraisals'
           /\ Cardinality(appraisals') = Cardinality(appraisals) ]_vars

\* the update went through: the appraisal it was given holds the answer of the
\* WHOIS lookup, next to an older appraisal of the same domain that holds none
C25_Witness ==
  \E task \in bg : \E row \in appraisals :
    /\ task.pc = "updated"
    /\ row.id = task.id
    /\ row.whois_data # skippedWhoisData(row.domain)
    /\ \E other \in appraisals :
         other.id # row.id /\ other.domain = row.domain /\ other.whois_data = Null

\* the background updates that the step starts
startedUpdates(before, after) == { task \in after : \A old \in before : old.id # task.id }

\* C26: a step starts a background WHOIS update only as the insert of a fresh
\* appraisal returns its id: it starts one update, for that id and the
\* request's domain; a step that ends a request as a cache hit, a validation
\* error, a rate-limit rejection or with a failed insert starts none, and no
\* two updates are started for one id
C26_UpdateStartedAfterInsert ==
  [][ /\ Cardinality(startedUpdates(bg, bg')) <= 1
      /\ \A task \in startedUpdates(bg, bg') :
           /\ task.pc = "started"
           /\ \E row \in appraisals' \ appraisals : row.id = task.id
           /\ \E r \in Requests :
                /\ req[r].pc = "Persisting" /\ req'[r].pc = "Done"
                /\ req'[r].rowId = task.id
                /\ task.domain = cleanDomainOf(req[r])
                /\ req[r].lookup # "hit"
                /\ evaluated(r)
      /\ \A r \in Requests :
           ( /\ req'[r] # req[r]
             /\ \/ req'[r].status \in { 400, 429, 500 }
                \/ req'[r].lookup = "hit"
                \/ req'[r].pc = "Done" /\ req'[r].rowId = 0 )
           => startedUpdates(bg, bg') = {}
      /\ \A t1, t2 \in bg' : t1.id = t2.id => t1 = t2 ]_vars

\* one request stored its fresh appraisal and got its update, another was
\* served from the cache: one update in all
C26_Witness ==
  \E r1, r2 \in Requests :
    /\ req[r1].pc = "Done" /\ req[r1].rowId # 0
    /\ \E task \in bg : task.id = req[r1].rowId
    /\ req[r2].pc = "Done" /\ req[r2].lookup = "hit"
    /\ Cardinality(bg) = 1

\* what client ip has used of its quota at time t
usedQuota(map, ip, t) ==
  IF ip \notin DOMAIN map \/ map[ip].resetTime < t THEN 0 ELSE map[ip].count

\* C27: the step that receives a request charges one unit to its client before
\* the body is read, unless it answers 429; no later step of a request, be it a
\* validation error, a cache hit or a fresh evaluation, changes the limiter
C27_ChargedBeforeBody ==
  [][ \A r \in Requests :
        /\ (req[r].pc = "Idle" /\ req'[r].pc # "Idle")
           => /\ req'[r].body = "none"
              /\ IF req'[r].status = 429
                 THEN /\ usedQuota(rateLimitMap, req'[r].ip, now) = RATE_LIMIT
                      /\ usedQuota(rateLimitMap', req'[r].ip, now) = RATE_LIMIT
                 ELSE usedQuota(rateLimitMap', req'[r].ip, now)
                        = usedQuota(rateLimitMap, req'[r].ip, now) + 1
        /\ (req[r].pc # "Idle" /\ req'[r] # req[r]) => rateLimitMap' = rateLimitMap ]_vars

\* a client sent a malformed request and then one served from the cache, and
\* has used two units of its quota
C27_Witness ==
  \E r1, r2 \in Requests :
    /\ req[r1].ip = req[r2].ip
    /\ req[r1].pc = "Failed" /\ req[r1].status = 400
    /\ req[r2].pc = "Done" /\ req[r2].lookup = "hit"
    /\ usedQuota(rateLimitMap, req[r1].ip, now) = 2

\* the client has an entry whose window has not passed
windowRunning(map, ip, t) == ip \in DOMAIN map /\ ~(map[ip].resetTime < t)

\* C28: a rejected call leaves the client's count and reset time as they were,
\* and an allowed call inside a running window raises the count by one and
\* leaves the reset time as it was
C28_WindowFixed ==
  [][ Len(rlCalls') = Len(rlCalls) + 1 =>
        LET call == rlCalls'[Len(rlCalls')]
        IN /\ ~call.allowed =>
                /\ windowRunning(rateLimitMap, call.ip, now)
                /\ rateLimitMap'[call.ip] = rateLimitMap[call.ip]
                /\ call.resetTime = rateLimitMap[call.ip].resetTime
           /\ (call.allowed /\ windowRunning(rateLimitMap, call.ip, now)) =>
                /\ rateLimitMap'[call.ip].count = rateLimitMap[call.ip].count + 1
                /\ rateLimitMap'[call.ip].resetTime = rateLimitMap[call.ip].resetTime
                /\ call.resetTime = rateLimitMap[call.ip].resetTime ]_vars

\* a client's window was opened, used up at a later time and then refused a
\* call at a still later time, with the reset time of its first call throughout
C28_Witness ==
  \E i, j, k \in 1..Len(rlCalls) :
    /\ i < j /\ j < k
    /\ rlCalls[i].ip = rlCalls[j].ip /\ rlCalls[j].ip = rlCalls[k].ip
    /\ windowOpener(rlCalls, i) = i /\ windowOpener(rlCalls, j) = i /\ windowOpener(rlCalls, k) = i
    /\ rlCalls[i].at < rlCalls[j].at /\ rlCalls[j].at < rlCalls[k].at
    /\ rlCalls[j].allowed /\ ~rlCalls[k].allowed
    /\ rlCalls[j].resetTime = rlCalls[i].resetTime
    /\ rlCalls[k].resetTime = rlCalls[i].resetTime
    /\ rateLimitMap[rlCalls[i].ip] = [count |-> RATE_LIMIT, resetTime |-> rlCalls[i].resetTime]

\* what the calls of `calls` return when they are the only calls made, at the
\* times they were made, from the i-th on, the limiter holding `map`
RECURSIVE answersAlone(_, _, _, _)
answersAlone(calls, i, map, cleanup) ==
  IF i > Len(calls) THEN << >>
  ELSE LET rateLimit == checkRateLimit(map, calls[i].ip, calls[i].at, cleanup)
       IN << [ allowed |-> rateLimit.allowed, remaining |-> rateLimit.remaining,
               resetTime |-> rateLimit.resetTime ] >>
            \o answersAlone(calls, i + 1, rateLimit.map, cleanup)

\* what the calls of `calls` were answered
answersGiven(calls) ==
  [ i \in 1..Len(calls) |-> [ allowed |-> calls[i].allowed, remaining |-> calls[i].remaining,
                              resetTime |-> calls[i].resetTime ] ]

\* C29: the answers (allowed, remaining, resetTime) a client got are those its
\* calls get when the calls of the other clients are left out, with the cleanup
\* of expired entries running in any or in none of the calls
C29_ClientsIndependent ==
  \A ip \in Ips : \A cleanup \in BOOLEAN :
    LET own == SelectSeq(rlCalls, LAMBDA call : call.ip = ip)
    IN answersGiven(own) = answersAlone(own, 1, << >>, cleanup)

\* the calls of two clients alternated, one of them used up its window, and the
\* entry of a client was swept away during a call of the other
C29_Witness ==
  \E i, j, k \in 1..Len(rlCalls) :
    /\ i < j /\ j < k
    /\ rlCalls[i].ip # rlCalls[j].ip /\ rlCalls[k].ip = rlCalls[i].ip
    /\ \E l \in 1..Len(rlCalls) : rlCalls[l].allowed /\ rlCalls[l].remaining = 0
    /\ rlCalls[Len(rlCalls)].ip \in DOMAIN rateLimitMap
    /\ \E l \in 1..Len(rlCalls) : rlCalls[l].ip \notin DOMAIN rateLimitMap

\* C30: the finalScore of a finished evaluation, when it is a number, is at
\* most 100, the upper end of the highest bracket
C30_FinalScoreAtMost100 ==
  (ev.pc = "Done" /\ IsNum(ev.appraisal.finalScore))
    => ev.appraisal.finalScore.n <= 100 * ScoreScale

====
